---------------------------- MODULE Spec2Model ----------------------------
(***************************************************************************)
(* MusicQuest import pipeline: the file-import hook (parseFiles), the      *)
(* paginated ListenBrainz scroll-back (fetchAllUserListens), the format    *)
(* parsers, the timestamp converter and the merge step.                    *)
(*                                                                         *)
(* JavaScript numbers that can exceed 32 bits (epoch milliseconds, epoch   *)
(* seconds beyond 2^31-1) are held as a pair <<hi, lo>> that stands for    *)
(* hi*1000 + lo with 0 <= lo < 1000.                                       *)
(***************************************************************************)
EXTENDS Integers, Sequences, FiniteSets, TLC

VARIABLES
    \* ---- parseFiles (useDataParser.js) ----
    files,        \* the File objects handed to parseFiles
    fileType,     \* the mode argument
    pc,           \* position of the async function
    idx,          \* loop variable i
    calls,        \* progress callbacks parseJSONL has made for the current file
    progress,     \* parseProgress state: [num, den, status, currentFile]
    allListens,   \* accumulator
    loading,      \* payload of the last SET_LOADING dispatch ("unset" before any)
    errorMsg,     \* payload of the last SET_ERROR dispatch
    result,       \* value parseFiles returned ("none" while running)
    touched,      \* indexes of the files that were read / detected / parsed
    unitLog,      \* outcome of every unit processed so far, in order
    cleanerCalls, \* arguments of every cleanGenreData call
    cleaned,      \* cleanedListens
    mergeCalls,   \* arguments of every mergeListeningData call
    stages,       \* run-level stages in the order they happened
    db,           \* the persisted corpus (IndexedDB listens store)
    mergeLog,     \* mergeInfo of every merge, with the corpus after it
    \* ---- fetchAllUserListens (listenbrainz.js) ----
    fpc,          \* position of the async function
    aborted,      \* "no", or where the call was when the signal was aborted
    maxTs,        \* cursor
    maxListens,   \* the maxListens argument (0: null)
    hasMore,
    fetched,      \* allListens of fetchAllUserListens
    requests,     \* max_ts of every page request sent
    history,      \* the upstream's listens, newest first
    fresult,      \* outcome: "none", or [kind |-> "throw"|"return", ...]
    \* ---- pure functions ----
    arg,          \* input handed to the function under check
    out,          \* its outcome
    \* ---- migrateOldData (utils/dataMigration.js) ----
    mpc,          \* position of the async function
    mi,           \* index into oldDBNames
    mj,           \* index into storeNames / oldLocalStorageKeys
    migrationPerformed,
    legacyDbs,    \* the legacy IndexedDB databases, by index into oldDBNames
    newDb,        \* the listens and genres stores of MusicQuestDB
    localStorage, \* key -> value ("" when the key is not set)
    mresult       \* value migrateOldData returned

pvars == <<files, fileType, pc, idx, calls, progress, allListens, loading,
           errorMsg, result, touched, unitLog, cleanerCalls, cleaned,
           mergeCalls, stages>>
dvars == <<db, mergeLog>>
fvars == <<fpc, aborted, maxTs, maxListens, hasMore, fetched, requests, history,
           fresult>>
uvars == <<arg, out>>
mvars == <<mpc, mi, mj, migrationPerformed, legacyDbs, newDb, localStorage,
           mresult>>
vars  == <<pvars, dvars, fvars, uvars, mvars>>

(***************************************************************************)
(* Numbers and JavaScript values                                           *)
(***************************************************************************)
ToNum(i) == <<i \div 1000, i % 1000>>

NumLt(a, b) == a[1] < b[1] \/ (a[1] = b[1] /\ a[2] < b[2])
NumLe(a, b) == a = b \/ NumLt(a, b)
NumGt(a, b) == NumLt(b, a)
NumAdd(a, k) == <<a[1] + ((a[2] + k) \div 1000), (a[2] + k) % 1000>>

\* Math.floor(n / 1000)
FloorDiv1000(n) == ToNum(n[1])
\* n * 1000 for an integer n
Times1000(n) == <<n[1] * 1000 + n[2], 0>>

Zero == <<0, 0>>

\* A JavaScript value: a number, NaN, a string that Date parses to the
\* instant v (milliseconds), a string Date cannot parse, the empty string,
\* or undefined/null.
JNum(n)  == [t |-> "num", v |-> n]
JNaN     == [t |-> "nan", v |-> Zero]
JIso(ms) == [t |-> "iso", v |-> ms]
JBadStr  == [t |-> "badstr", v |-> Zero]
JEmpty   == [t |-> "empty", v |-> Zero]
JUndef   == [t |-> "undef", v |-> Zero]

\* JavaScript truthiness of such a value
Truthy(x) ==
    \/ x.t = "num" /\ x.v # Zero
    \/ x.t \in {"iso", "badstr"}

\* Math.floor(Date.now() / 1000) at the time of the run
NowSec == ToNum(1762300800)

(***************************************************************************)
(* convertSpotifyTimestamp (unnamed/part_001)                              *)
(***************************************************************************)
MIN_TIMESTAMP == 946684800
MAX_TIMESTAMP == 2147483647

\* new Date(1900, 0, 1).getTime() in days since 1970-01-01 (UTC host)
ExcelEpochDays == -25567

\* whole days -> seconds, as a Num
DaysToSec(d) == <<(d * 864) \div 10, ((d * 864) % 10) * 100>>

\* the serial-date branch, for an integer serial n (a Num below 60000)
ExcelToSec(n) ==
    LET serial   == n[1] * 1000 + n[2]
        adjusted == IF serial > 60 THEN serial - 2 ELSE serial - 1
    IN  DaysToSec(ExcelEpochDays + adjusted)

convertSpotifyTimestamp(ts) ==
    IF ts.t \in {"iso", "badstr", "empty"}
    THEN IF ts.t = "iso" THEN JNum(FloorDiv1000(ts.v)) ELSE JNum(NowSec)
    ELSE IF ts.t = "num" /\ NumGt(ts.v, <<1000000000, 0>>)
    THEN JNum(FloorDiv1000(ts.v))
    ELSE IF ts.t = "num" /\ NumGt(ts.v, ToNum(1000000000))
                         /\ NumLt(ts.v, ToNum(2000000000))
    THEN ts
    ELSE IF ts.t = "num" /\ NumGt(ts.v, ToNum(40000)) /\ NumLt(ts.v, ToNum(60000))
    THEN JNum(ExcelToSec(ts.v))
    ELSE JNum(NowSec)

InCanonicalRange(x) ==
    /\ x.t = "num"
    /\ NumLe(ToNum(MIN_TIMESTAMP), x.v)
    /\ NumLe(x.v, ToNum(MAX_TIMESTAMP))

\* The encodings the converter recognises
IsIsoString(ts)    == ts.t = "iso"
IsEpochMillis(ts)  == ts.t = "num" /\ NumGt(ts.v, <<1000000000, 0>>)
IsEpochSeconds(ts) == ts.t = "num" /\ NumGt(ts.v, ToNum(1000000000))
                                   /\ NumLt(ts.v, ToNum(2000000000))
IsSerialDate(ts)   == ts.t = "num" /\ NumGt(ts.v, ToNum(40000))
                                   /\ NumLt(ts.v, ToNum(60000))
SupportedEncoding(ts) ==
    IsIsoString(ts) \/ IsEpochMillis(ts) \/ IsEpochSeconds(ts) \/ IsSerialDate(ts)

\* Sample inputs: every threshold of the converter and of the canonical range,
\* with the values up to TsSpread away from it.  Milliseconds beyond
\* 2147483647999 are outside the numbers the pairs can hold.
TsSpread == 1

TsBases ==
    { ToNum(0), ToNum(40000), ToNum(50424), ToNum(60000),
      ToNum(1000000000), ToNum(2000000000),
      ToNum(MIN_TIMESTAMP), ToNum(MAX_TIMESTAMP),
      <<1000000000, 0>>, <<MIN_TIMESTAMP, 0>>, <<2000000000, 0>> }

TsNums == { NumAdd(b, k) : b \in TsBases, k \in (0 - TsSpread)..TsSpread }

TsInputs ==
    { JNum(n) : n \in TsNums } \cup { JIso(n) : n \in TsNums }
        \cup { JBadStr, JEmpty, JUndef, JNaN }

(***************************************************************************)
(* Raw records and canonical listens                                       *)
(*                                                                         *)
(* A raw record is one element of a parsed JSON array.  Absent fields are  *)
(* JUndef / "" / 0.  isNull marks a null element.                          *)
(***************************************************************************)
RawRec(isNull, la, meta, tn, an, ts, mtn, man, uri, ms) ==
    [ isNull |-> isNull,
      listened_at |-> la,           \* JS value
      track_metadata |-> meta,      \* TRUE when the object is present
      track_name |-> tn,            \* track_metadata.track_name
      artist_name |-> an,           \* track_metadata.artist_name
      ts |-> ts,                    \* JS value
      master_metadata_track_name |-> mtn,
      master_metadata_album_artist_name |-> man,
      spotify_track_uri |-> uri,
      ms_played |-> ms ]

LbRec(la, tn, an) == RawRec(FALSE, la, TRUE, tn, an, JUndef, "", "", "", 0)
SpRec(ts, mtn, man, ms) ==
    RawRec(FALSE, JUndef, FALSE, "", "", ts, mtn, man, "spotify:track:x", ms)
NullRec == RawRec(TRUE, JUndef, FALSE, "", "", JUndef, "", "", "", 0)

\* DOMPurify.sanitize on the sample strings: markup that carries script is
\* removed, plain text is returned as it is.
Sanitize(s) == IF s = "<script>x</script>" THEN "" ELSE s

\* a || b for strings
OrStr(a, b) == IF a # "" THEN a ELSE b

\* spotify_track_uri?.split(':')[2]
UriTrackId(uri) == IF uri = "spotify:track:x" THEN "x" ELSE ""

Listen(la, tsms, tn, an, ms, source, inputIndex) ==
    [ listened_at |-> la,           \* JS value (seconds)
      timestamp |-> tsms,           \* JS value (milliseconds), JUndef if absent
      trackName |-> tn,
      artistName |-> an,
      msPlayed |-> ms,
      source |-> source,
      genre |-> "",
      inputIndex |-> inputIndex,    \* position of the raw record in its array
      ord |-> 0 ]                   \* position in the accumulated batch

\* the elements of a finite set of integers, ascending
RECURSIVE Ascending(_)
Ascending(S) ==
    IF S = {} THEN <<>>
    ELSE LET m == CHOOSE x \in S : \A y \in S : x <= y
         IN  <<m>> \o Ascending(S \ {m})

(***************************************************************************)
(* universalParser.js                                                      *)
(***************************************************************************)
\* A parse result: success, listens, error.  "threw" marks a call that
\* raised instead of returning.
Ok(listens, format) ==
    [kind |-> "ok", listens |-> listens, format |-> format, error |-> ""]
Failed(msg) == [kind |-> "failed", listens |-> <<>>, format |-> "", error |-> msg]
Threw(msg)  == [kind |-> "threw", listens |-> <<>>, format |-> "", error |-> msg]

\* Parsed JSON of a file: an array of records, one object, null, or text
\* that JSON.parse rejects.
ArrayData(items) == [kind |-> "array", items |-> items]
ObjectData(obj)  == [kind |-> "object", items |-> <<obj>>]
NullData         == [kind |-> "null", items |-> <<>>]
BadJson          == [kind |-> "badjson", items |-> <<>>]

\* one element of data.map in parseListenBrainzFormat
LbListen(listen, index) ==
    LET listenedAt == IF Truthy(listen.listened_at) THEN listen.listened_at
                      ELSE JNum(NowSec)
    IN  Listen(listenedAt,
               JNum(Times1000(listenedAt.v)),
               Sanitize(OrStr(IF listen.track_metadata THEN listen.track_name ELSE "",
                              "Unknown Track")),
               Sanitize(OrStr(IF listen.track_metadata THEN listen.artist_name ELSE "",
                              "Unknown Artist")),
               0, "listenbrainz", index)

parseListenBrainzFormat(data) ==
    IF data.kind # "array"
    THEN Failed("Invalid ListenBrainz JSON format: expected array")
    ELSE IF \E k \in 1..Len(data.items) : data.items[k].isNull
    THEN Failed("Cannot read properties of null")
    ELSE Ok([k \in 1..Len(data.items) |-> LbListen(data.items[k], k)],
            "listenbrainz")

MinMsPlayed == 30000

\* the filter predicate of parseSpotifyFormat
SpotifyKeep(item) ==
    /\ Truthy(item.ts)
    /\ (item.master_metadata_track_name # "" \/ item.spotify_track_uri # "")
    /\ item.master_metadata_album_artist_name # ""
    /\ item.ms_played >= MinMsPlayed

\* new Date(ts).getTime()
DateGetTime(ts) ==
    IF ts.t \in {"iso", "num"} THEN JNum(ts.v) ELSE JNaN

\* Math.floor(ms / 1000)
FloorSec(ms) == IF ms.t = "num" THEN JNum(FloorDiv1000(ms.v)) ELSE JNaN

\* one element of validListens.map in parseSpotifyFormat
SpListen(listen, index) ==
    LET timestampMs == DateGetTime(listen.ts)
    IN  Listen(FloorSec(timestampMs),
               timestampMs,
               Sanitize(OrStr(listen.master_metadata_track_name,
                              OrStr(UriTrackId(listen.spotify_track_uri),
                                    "Unknown Track"))),
               Sanitize(OrStr(listen.master_metadata_album_artist_name,
                              "Unknown Artist")),
               listen.ms_played, "spotify", index)

parseSpotifyFormat(data) ==
    IF data.kind # "array"
    THEN Failed("Invalid Spotify JSON format: expected array")
    ELSE IF \E k \in 1..Len(data.items) : data.items[k].isNull
    THEN Failed("Cannot read properties of null")
    ELSE LET kept == Ascending({k \in 1..Len(data.items) : SpotifyKeep(data.items[k])})
         IN  Ok([k \in 1..Len(kept) |-> SpListen(data.items[kept[k]], kept[k])],
                "spotify")

\* fileName.toLowerCase().includes(sub), on the sample file names
LowerIncludes(fileName, sub) ==
    CASE sub = "spotify"           -> fileName \in {"my_spotify_data.json"}
      [] sub = "streaming_history" -> fileName \in {"Streaming_History_Audio_2021.json"}
      [] sub = "streaming"         -> fileName \in {"Streaming_History_Audio_2021.json",
                                                    "my_streaming.json"}
      [] sub = "listenbrainz"      -> fileName \in {"ListenBrainz_export.json"}
      [] sub = "lastfm"            -> fileName \in {"lastfm.json"}
      [] sub = "last.fm"           -> FALSE
      [] OTHER                     -> FALSE

\* the file-name rules of detectDataFormat
DetectByFileName(fileName) ==
    IF LowerIncludes(fileName, "spotify")
       \/ LowerIncludes(fileName, "streaming_history")
    THEN "spotify"
    ELSE IF LowerIncludes(fileName, "listenbrainz")
    THEN "listenbrainz"
    ELSE IF LowerIncludes(fileName, "lastfm") \/ LowerIncludes(fileName, "last.fm")
    THEN "lastfm"
    ELSE "throw"

\* detectDataFormat: the detected format, or "throw".  An object that is not
\* an array is wrapped into a one-element array; an envelope object has none
\* of the fields the content rules read.
detectDataFormat(data, fileName) ==
    IF data.kind \in {"null", "badjson"} THEN "throw"
    ELSE IF data.kind = "envelope" THEN DetectByFileName(fileName)
    ELSE IF Len(data.items) = 0 THEN "throw"
    ELSE LET firstItem == data.items[1] IN
         IF firstItem.isNull THEN "throw"
         ELSE IF Truthy(firstItem.listened_at) /\ firstItem.track_metadata
         THEN "listenbrainz"
         ELSE IF Truthy(firstItem.ts)
                 /\ (firstItem.master_metadata_track_name # ""
                     \/ firstItem.spotify_track_uri # "")
         THEN "spotify"
         ELSE DetectByFileName(fileName)

parseUniversalData(data, fileName) ==
    IF data.kind = "badjson" THEN Threw("Failed to parse file: invalid JSON")
    ELSE LET format == detectDataFormat(data, fileName) IN
         CASE format = "listenbrainz" -> parseListenBrainzFormat(data)
           [] format = "spotify"      -> parseSpotifyFormat(data)
           [] format = "lastfm"       ->
                Threw("Failed to parse file: Last.fm format support coming soon")
           [] OTHER                   -> Threw("Failed to parse file: unknown format")

(***************************************************************************)
(* parseSpotifyFormat of unnamed/part_001 (the parser with timestamp        *)
(* conversion)                                                              *)
(***************************************************************************)
\* the filter predicate of part_001's parseSpotifyFormat
SpotifyKeepImported(item) ==
    /\ Truthy(item.ts)
    /\ item.master_metadata_track_name # ""
    /\ item.master_metadata_album_artist_name # ""
    /\ item.ms_played >= MinMsPlayed

parseSpotifyFormatImported(data) ==
    LET listens == IF data.kind = "array" THEN data.items ELSE <<>> IN
    IF Len(listens) = 0 THEN Threw("No listens found in Spotify file")
    ELSE IF \E k \in 1..Len(listens) : listens[k].isNull
    THEN Threw("Cannot read properties of null")
    ELSE LET kept == Ascending({k \in 1..Len(listens) : SpotifyKeepImported(listens[k])})
         IN  Ok([k \in 1..Len(kept) |->
                    Listen(convertSpotifyTimestamp(listens[kept[k]].ts), JUndef,
                           listens[kept[k]].master_metadata_track_name,
                           listens[kept[k]].master_metadata_album_artist_name,
                           listens[kept[k]].ms_played, "spotify", kept[k])],
                "spotify")

(***************************************************************************)
(* Sample files                                                            *)
(***************************************************************************)
File(name, size, data) == [name |-> name, size |-> size, data |-> data]

T0 == ToNum(1609459200)
T1 == ToNum(1609545600)

\* three ListenBrainz records, two of them with the same listened_at
LbExport ==
    File("ListenBrainz_export.json", 131072000,
         ArrayData(<< LbRec(JNum(T0), "Alpha", "Ann"),
                      LbRec(JNum(T1), "Beta", "Bob"),
                      LbRec(JNum(T0), "Gamma", "") >>))

\* Spotify records: two within one second (the later one first), one played
\* for less than 30 s, one whose ts Date cannot parse
SpotifyHistory ==
    File("Streaming_History_Audio_2021.json", 131072000,
         ArrayData(<< SpRec(JIso(NumAdd(Times1000(T0), 500)), "Delta", "Dan", 45000),
                      SpRec(JIso(NumAdd(Times1000(T0), 200)), "Echo", "Eve", 30000),
                      SpRec(JIso(Times1000(T1)), "Foxtrot", "Fay", 29999),
                      SpRec(JBadStr, "Golf", "Gus", 31000) >>))

Notes == File("notes.json", 1, BadJson)

LbLines ==
    File("export.jsonl", 262144000,
         ArrayData(<< LbRec(JNum(T0), "Alpha", "Ann") >>))

\* every record is dropped by the Spotify filter
ShortPlays ==
    File("my_spotify_data.json", 0,
         ArrayData(<< SpRec(JIso(Times1000(T0)), "Hotel", "Hal", 1000) >>))

FilePool == {LbExport, SpotifyHistory, Notes, LbLines, ShortPlays}

MaxFiles == 2

FileLists == UNION { [1..n -> FilePool] : n \in 0..MaxFiles }

FileTypes == {"auto", "listenbrainz", "spotify", "lastfm"}

(***************************************************************************)
(* Collaborators of parseFiles whose code is outside the source tree       *)
(***************************************************************************)
\* isJSONLFile(file.name)
isJSONLFile(name) == name = "export.jsonl"

\* What parseListenBrainzJSON / parseSpotifyJSON may do with an array they
\* are given: return the listens of the format, return an unsuccessful
\* result, or raise.
FormatParseOutcomes(data, format) ==
    { IF format = "listenbrainz" THEN parseListenBrainzFormat(data)
                                 ELSE parseSpotifyFormat(data),
      Failed("Parse failed"),
      Threw("parser raised") }

\* validateListenBrainzJSON(data).valid / validateSpotifyJSON(data).valid:
\* either answer
ValidationOutcomes == BOOLEAN

\* the values progress.percentage takes in parseJSONL's callback
ProgressValues == {0, 50, 100}

\* the most callbacks parseJSONL makes for one file
MaxProgressCalls == 2

\* cleanGenreData(listens).cleanedListens: the same listens, genre normalised
cleanGenreData(listens) ==
    [k \in 1..Len(listens) |-> [listens[k] EXCEPT !.genre = "cleaned"]]

(***************************************************************************)
(* Stable sort by a numeric key (Array.prototype.sort with a comparator    *)
(* that subtracts keys)                                                     *)
(***************************************************************************)
\* x placed after every element of the sorted sequence whose key is <= x.key
InsertByKey(sorted, x) ==
    LET p == Cardinality({k \in 1..Len(sorted) : NumLe(sorted[k].key, x.key)})
    IN  SubSeq(sorted, 1, p) \o <<x>> \o SubSeq(sorted, p + 1, Len(sorted))

RECURSIVE StableSortByKey(_)
StableSortByKey(seq) ==
    IF seq = <<>> THEN <<>>
    ELSE InsertByKey(StableSortByKey(SubSeq(seq, 1, Len(seq) - 1)), seq[Len(seq)])

(***************************************************************************)
(* mergeListeningData (utils/storage/indexedDB, outside the source tree):  *)
(* modelled from the merge contract                                        *)
(***************************************************************************)
DedupKey(l) == <<l.artistName, l.trackName, l.listened_at>>

\* the corpus and the duplicate count after the first k listens of the batch
RECURSIVE MergeUpTo(_, _, _)
MergeUpTo(corpus, batch, k) ==
    IF k = 0 THEN [data |-> corpus, duplicates |-> 0]
    ELSE LET m == MergeUpTo(corpus, batch, k - 1) IN
         IF \E j \in 1..Len(m.data) : DedupKey(m.data[j]) = DedupKey(batch[k])
         THEN [data |-> m.data, duplicates |-> m.duplicates + 1]
         ELSE [data |-> Append(m.data, batch[k]), duplicates |-> m.duplicates]

\* a merge that appends the batch without looking for duplicates
mergeWithoutDedup(corpus, batch) ==
    [ success |-> TRUE,
      data |-> corpus \o batch,
      mergeInfo |-> [duplicates |-> 0, added |-> Len(batch)] ]

\* listened_at as a sort key; NaN sorts as 0
ListenedAtKey(l) == IF l.listened_at.t = "num" THEN l.listened_at.v ELSE Zero

mergeListeningData(corpus, batch) ==
    LET m == MergeUpTo(corpus, batch, Len(batch))
        keyed == [k \in 1..Len(m.data) |->
                     [key |-> ListenedAtKey(m.data[k]), item |-> m.data[k]]]
        sorted == StableSortByKey(keyed)
    IN  [ success |-> TRUE,
          data |-> [k \in 1..Len(sorted) |-> sorted[k].item],
          mergeInfo |-> [duplicates |-> m.duplicates,
                         added |-> Len(batch) - m.duplicates] ]

(***************************************************************************)
(* parseFiles (hooks/useDataParser.js)                                     *)
(***************************************************************************)
maxSize == 250 * 1024 * 1024

RECURSIVE SumSizes(_, _)
SumSizes(fs, n) == IF n = 0 THEN 0 ELSE SumSizes(fs, n - 1) + fs[n].size

\* files.reduce((sum, f) => sum + f.size, 0)
totalSize(fs) == SumSizes(fs, Len(fs))

OverLimitInclusive(total) == total >= maxSize

\* the guard of the size-limit throw
OverLimit(total) == total > maxSize

\* A percentage is the fraction num / den; den is twice the number of files
\* so that every value the loop writes is a whole numerator.
Den == IF Len(files) = 0 THEN 2 ELSE 2 * Len(files)

Progress(num, status, currentFile) ==
    [num |-> num, den |-> Den, status |-> status, currentFile |-> currentFile]

\* (i / files.length) * 100
filePercentage(i) == Progress(i * 200, "Processing file", files[i + 1].name)
\* filePercentage + progress.percentage / files.length
streamPercentage(i, p) == Progress(i * 200 + 2 * p, "Parsing (streaming)", files[i + 1].name)
\* ((i + 0.5) / files.length) * 100
halfPercentage(i) == Progress((2 * i + 1) * 100, "Parsing", files[i + 1].name)
\* the fixed checkpoints 0, 70, 80, 100
fixedPercentage(pct, status) == Progress(pct * Den, status, "")

\* useState's initial value, and the value the catch block writes
ResetProgress == [num |-> 0, den |-> Den, status |-> "", currentFile |-> ""]

Skipped(msg) == [kind |-> "skipped", listens |-> <<>>, format |-> "", error |-> msg]

\* lines 71-107: what the non-JSONL branch leaves in parseResult
TextOutcomes(file, mode) ==
    IF mode = "auto" THEN {parseUniversalData(file.data, file.name)}
    ELSE IF mode \in {"listenbrainz", "spotify"}
    THEN IF file.data.kind = "badjson" THEN {Threw("Unexpected token in JSON")}
         ELSE {Skipped("invalid format")} \cup FormatParseOutcomes(file.data, mode)
    ELSE {Threw("Unknown file type")}

\* lines 45-69: what the JSONL branch leaves in parseResult
JsonlOutcomes(file, mode) ==
    IF file.data.kind # "array" THEN {Threw("JSONL read failed")}
    ELSE (IF mode \in {"listenbrainz", "auto"}
          THEN FormatParseOutcomes(file.data, "listenbrainz") ELSE {})
         \cup
         (IF mode \in {"spotify", "auto"}
          THEN FormatParseOutcomes(file.data, "spotify") ELSE {})
         \cup {Threw("JSONL file format not recognized")}

OnUnitFailureRethrow(r) == IF r.kind = "threw" THEN "rethrow" ELSE "continue"

\* lines 110-134: a unit that raised, was skipped or reported failure is
\* logged and the loop continues
OnUnitFailure(r) == "continue"

\* allListens.push(...parseResult.listens)
Pushed(acc, listens) ==
    [k \in 1..Len(listens) |-> [listens[k] EXCEPT !.ord = Len(acc) + k]]

PushAll(acc, listens) == acc \o Pushed(acc, listens)

NoListensNever(acc) == Len(acc) < 0

\* the guard of the 'No valid listens' throw
NoListens(acc) == Len(acc) = 0

\* a.timestamp || a.listened_at || 0
SortKey(a) ==
    IF Truthy(a.timestamp) THEN a.timestamp.v
    ELSE IF Truthy(a.listened_at) THEN a.listened_at.v
    ELSE Zero

\* sorted by the key, ties in whatever order the key leaves them: here reversed
SortListensUnstable(acc) ==
    LET sorted == StableSortByKey([k \in 1..Len(acc) |->
                      [key |-> SortKey(acc[Len(acc) + 1 - k]),
                       item |-> acc[Len(acc) + 1 - k]]])
    IN  [k \in 1..Len(sorted) |-> sorted[k].item]

\* allListens.sort((a, b) => aTime - bTime)
SortListens(acc) ==
    LET sorted == StableSortByKey([k \in 1..Len(acc) |->
                                      [key |-> SortKey(acc[k]), item |-> acc[k]]])
    IN  [k \in 1..Len(sorted) |-> sorted[k].item]

\* lines 192-200: the catch block of the run
Catch(msg) ==
    /\ errorMsg' = msg
    /\ progress' = ResetProgress
    /\ result' = [success |-> FALSE, error |-> msg, count |-> 0]
    /\ pc' = "done"

\* lines 17-28
Start ==
    /\ pc = "idle"
    /\ loading' = "true"
    /\ IF OverLimit(totalSize(files))
       THEN /\ Catch("Total file size exceeds 250MB limit")
            /\ stages' = Append(stages, "failed")
       ELSE /\ errorMsg' = "null"
            /\ progress' = fixedPercentage(0, "Reading files...")
            /\ pc' = "loop"
            /\ UNCHANGED <<result, stages>>
    /\ UNCHANGED <<files, fileType, idx, calls, allListens, touched, unitLog,
                   cleanerCalls, cleaned, mergeCalls>>
    /\ UNCHANGED <<dvars, fvars, uvars, mvars>>

\* lines 32-46 / 71: the head of one iteration, up to the await
FileBegin ==
    /\ pc = "loop"
    /\ idx < Len(files)
    /\ progress' = filePercentage(idx)
    /\ touched' = touched \cup {idx + 1}
    /\ calls' = 0
    /\ pc' = IF isJSONLFile(files[idx + 1].name) THEN "jsonl" ELSE "text"
    /\ UNCHANGED <<files, fileType, idx, allListens, loading, errorMsg, result,
                   unitLog, cleanerCalls, cleaned, mergeCalls, stages>>
    /\ UNCHANGED <<dvars, fvars, uvars, mvars>>

\* lines 46-53: parseJSONL reports progress, the share of the file consumed
\* so far (it never reports less than it reported before)
JsonlProgress ==
    /\ pc = "jsonl"
    /\ calls < MaxProgressCalls
    /\ \E p \in ProgressValues :
         /\ streamPercentage(idx, p).num >= progress.num
         /\ progress' = streamPercentage(idx, p)
    /\ calls' = calls + 1
    /\ UNCHANGED <<files, fileType, pc, idx, allListens, loading, errorMsg,
                   result, touched, unitLog, cleanerCalls, cleaned, mergeCalls,
                   stages>>
    /\ UNCHANGED <<dvars, fvars, uvars, mvars>>

\* lines 110-134: the end of one iteration, with parseResult r
FinishUnit(r) ==
    IF OnUnitFailure(r) = "continue" \/ r.kind = "ok"
    THEN /\ allListens' = IF r.kind = "ok" THEN PushAll(allListens, r.listens)
                          ELSE allListens
         /\ unitLog' = Append(unitLog,
                [kind |-> r.kind,
                 listens |-> IF r.kind = "ok" THEN Pushed(allListens, r.listens)
                             ELSE <<>>])
         /\ idx' = idx + 1
         /\ pc' = "loop"
         /\ UNCHANGED <<progress, errorMsg, result, stages>>
    ELSE /\ Catch(r.error)
         /\ stages' = Append(stages, "failed")
         /\ UNCHANGED <<allListens, unitLog, idx>>

\* lines 46-69, 110-134: parseJSONL settles and the unit is finished
JsonlDone ==
    /\ pc = "jsonl"
    /\ \E r \in JsonlOutcomes(files[idx + 1], fileType) : FinishUnit(r)
    /\ UNCHANGED <<files, fileType, calls, loading, touched, cleanerCalls,
                   cleaned, mergeCalls>>
    /\ UNCHANGED <<dvars, fvars, uvars, mvars>>

\* lines 71-77: file.text() settles
TextRead ==
    /\ pc = "text"
    /\ progress' = halfPercentage(idx)
    /\ pc' = "parse"
    /\ UNCHANGED <<files, fileType, idx, calls, allListens, loading, errorMsg,
                   result, touched, unitLog, cleanerCalls, cleaned, mergeCalls,
                   stages>>
    /\ UNCHANGED <<dvars, fvars, uvars, mvars>>

\* lines 79-134: the text is parsed and the unit is finished
ParseText ==
    /\ pc = "parse"
    /\ \E r \in TextOutcomes(files[idx + 1], fileType) : FinishUnit(r)
    /\ UNCHANGED <<files, fileType, calls, loading, touched, cleanerCalls,
                   cleaned, mergeCalls>>
    /\ UNCHANGED <<dvars, fvars, uvars, mvars>>

\* lines 137-147: after the loop
AfterLoop ==
    /\ pc = "loop"
    /\ idx >= Len(files)
    /\ IF NoListens(allListens)
       THEN /\ Catch("No valid listens found in uploaded files")
            /\ stages' = stages \o <<"units", "failed">>
            /\ UNCHANGED allListens
       ELSE /\ allListens' = SortListens(allListens)
            /\ progress' = fixedPercentage(70, "Cleaning genre data...")
            /\ pc' = "clean"
            /\ stages' = stages \o <<"units", "sort">>
            /\ UNCHANGED <<errorMsg, result>>
    /\ UNCHANGED <<files, fileType, idx, calls, loading, touched, unitLog,
                   cleanerCalls, cleaned, mergeCalls>>
    /\ UNCHANGED <<dvars, fvars, uvars, mvars>>

MergeArgumentUncleaned(cleanedListens, listens) == listens

\* line 153: what mergeListeningData is called with
MergeArgument(cleanedListens, listens) == cleanedListens

\* lines 149-153: the genre cleaner runs and the merge is started
Clean ==
    /\ pc = "clean"
    /\ cleanerCalls' = Append(cleanerCalls, allListens)
    /\ cleaned' = cleanGenreData(allListens)
    /\ progress' = fixedPercentage(80, "Merging with existing data...")
    /\ mergeCalls' = Append(mergeCalls, MergeArgument(cleaned', allListens))
    /\ stages' = stages \o <<"clean", "merge">>
    /\ pc' = "merging"
    /\ UNCHANGED <<files, fileType, idx, calls, allListens, loading, errorMsg,
                   result, touched, unitLog>>
    /\ UNCHANGED <<dvars, fvars, uvars, mvars>>

\* lines 153-191: the merge settles; corpus validation; completion.
\* mergeOk: whether the store reports success; valid: validateListeningData's
\* verdict on the merged corpus.
MergeDone ==
    /\ pc = "merging"
    /\ \E mergeOk \in BOOLEAN, valid \in BOOLEAN :
         LET mergeResult == mergeListeningData(db, cleaned) IN
         IF ~mergeOk
         THEN /\ Catch("Failed to merge data")
              /\ stages' = Append(stages, "failed")
              /\ UNCHANGED <<loading, dvars>>
         ELSE /\ db' = mergeResult.data
              /\ mergeLog' = Append(mergeLog,
                     [batch |-> Len(cleaned),
                      duplicates |-> mergeResult.mergeInfo.duplicates,
                      data |-> mergeResult.data])
              /\ IF ~valid
                 THEN /\ Catch("Invalid listening data")
                      /\ stages' = stages \o <<"validate", "failed">>
                      /\ UNCHANGED loading
                 ELSE /\ progress' = fixedPercentage(100, "Complete!")
                      /\ loading' = "false"
                      /\ result' = [success |-> TRUE, error |-> "",
                                    count |-> Len(mergeResult.data)]
                      /\ stages' = stages \o <<"validate", "done">>
                      /\ pc' = "done"
                      /\ UNCHANGED errorMsg
    /\ UNCHANGED <<files, fileType, idx, calls, allListens, touched, unitLog,
                   cleanerCalls, cleaned, mergeCalls>>
    /\ UNCHANGED <<fvars, uvars, mvars>>

(***************************************************************************)
(* Initial states                                                          *)
(***************************************************************************)
\* a corpus persisted by an earlier import of LbLines
EarlierImport ==
    << [Listen(JNum(T0), JNum(Times1000(T0)), "Alpha", "Ann", 0, "listenbrainz", 1)
            EXCEPT !.genre = "cleaned", !.ord = 1] >>

ParseIdle ==
    /\ files = <<>>
    /\ fileType = "auto"
    /\ pc = "idle"
    /\ idx = 0
    /\ calls = 0
    /\ progress = [num |-> 0, den |-> 2, status |-> "", currentFile |-> ""]
    /\ allListens = <<>>
    /\ loading = "unset"
    /\ errorMsg = "unset"
    /\ result = [success |-> FALSE, error |-> "none", count |-> 0]
    /\ touched = {}
    /\ unitLog = <<>>
    /\ cleanerCalls = <<>>
    /\ cleaned = <<>>
    /\ mergeCalls = <<>>
    /\ stages = <<>>

DbIdle == db = <<>> /\ mergeLog = <<>>

FetchIdle ==
    /\ fpc = "off"
    /\ aborted = "no"
    /\ maxTs = 0
    /\ maxListens = 0
    /\ hasMore = TRUE
    /\ fetched = <<>>
    /\ requests = <<>>
    /\ history = <<>>
    /\ fresult = [kind |-> "none", success |-> FALSE, error |-> "", listens |-> <<>>]

NoOutcome == [fn |-> "none", r |-> <<>>]

PureIdle == arg = <<>> /\ out = NoOutcome

NoStorage == [k \in {} |-> ""]

MigrateIdle ==
    /\ mpc = "off"
    /\ mi = 0
    /\ mj = 0
    /\ migrationPerformed = FALSE
    /\ legacyDbs = <<>>
    /\ newDb = [listens |-> {}, genres |-> {}]
    /\ localStorage = NoStorage
    /\ mresult = [success |-> FALSE, migrated |-> FALSE, error |-> "none"]

\* parseFiles is called once with any list of sample files and any mode
Init ==
    /\ files \in FileLists
    /\ fileType \in FileTypes
    /\ pc = "idle"
    /\ idx = 0
    /\ calls = 0
    /\ progress = ResetProgress
    /\ allListens = <<>>
    /\ loading = "unset"
    /\ errorMsg = "unset"
    /\ result = [success |-> FALSE, error |-> "none", count |-> 0]
    /\ touched = {}
    /\ unitLog = <<>>
    /\ cleanerCalls = <<>>
    /\ cleaned = <<>>
    /\ mergeCalls = <<>>
    /\ stages = <<>>
    /\ db \in {<<>>, EarlierImport}
    /\ mergeLog = <<>>
    /\ FetchIdle
    /\ PureIdle
    /\ MigrateIdle

Next ==
    \/ Start
    \/ FileBegin
    \/ JsonlProgress
    \/ JsonlDone
    \/ TextRead
    \/ ParseText
    \/ AfterLoop
    \/ Clean
    \/ MergeDone

Spec == Init /\ [][Next]_vars

(***************************************************************************)
(* Properties of parseFiles                                                *)
(***************************************************************************)
SizeLimitMessage == "Total file size exceeds 250MB limit"
NoListensMessage == "No valid listens found in uploaded files"

Failure == pc = "done" /\ ~result.success

\* C1: a total above 250 MB ends the run with the size-limit error before
\* any file is read, detected or parsed and before the genre cleaner or the
\* merge is called; a total of 250 MB or less never gives that error.
C1_SizeLimitFailsFast ==
    /\ (pc # "idle" /\ totalSize(files) > 262144000) =>
          /\ Failure
          /\ result.error = SizeLimitMessage
          /\ touched = {} /\ unitLog = <<>>
          /\ cleanerCalls = <<>> /\ mergeCalls = <<>>
    /\ totalSize(files) <= 262144000 => result.error # SizeLimitMessage

C1_Witness ==
    /\ Failure
    /\ totalSize(files) = 262144001
    /\ result.error = SizeLimitMessage

\* C2: a unit that raises, is skipped or reports failure never ends the run:
\* every unit is processed, and the listens of every unit that parsed are in
\* the accumulated batch.
C2_UnitFailureIsolated ==
    /\ Len(unitLog) = idx
    /\ (pc = "done" /\ result.error # SizeLimitMessage) =>
          /\ Len(unitLog) = Len(files)
          /\ touched = 1..Len(files)
    /\ \A k \in 1..Len(unitLog) : \A j \in 1..Len(unitLog[k].listens) :
          \E m \in 1..Len(allListens) : allListens[m] = unitLog[k].listens[j]

C2_Witness ==
    /\ pc = "done" /\ result.success
    /\ \E k \in 1..Len(unitLog) : \E m \in 1..Len(unitLog) :
          /\ k < m
          /\ unitLog[k].kind = "threw"
          /\ unitLog[m].kind = "ok" /\ Len(unitLog[m].listens) > 0

\* C3: when no unit yields a listen (every unit skipped, failed or empty, or
\* no unit at all), the run ends with the error 'No valid listens', returns
\* success:false, and neither the genre cleaner nor the merge is called.
C3_NoValidListens ==
    (/\ pc \in {"clean", "merging", "done"}
     /\ result.error # SizeLimitMessage
     /\ \A k \in 1..Len(unitLog) : unitLog[k].listens = <<>>) =>
        /\ Failure
        /\ result.error = NoListensMessage
        /\ cleanerCalls = <<>> /\ mergeCalls = <<>>

C3_Witness ==
    /\ Failure /\ result.error = NoListensMessage
    /\ Len(unitLog) = 2
    /\ unitLog[1].kind = "ok" /\ unitLog[2].kind = "threw"

\* a / b <= c / d for positive denominators
PctLe(p, q) == p.num * q.den <= q.num * p.den

\* C4: in a run that does not fail, the percentage written to the progress
\* indicator never decreases from one write to the next.
C4_ProgressMonotone ==
    [][~(pc' = "done" /\ ~result'.success) => PctLe(progress, progress')]_vars

\* a < b on JS values that are numbers
JsLt(a, b) == a.t = "num" /\ b.t = "num" /\ NumLt(a.v, b.v)

C6_FailureResetsIndicators ==
    Failure =>
        /\ result.error = errorMsg
        /\ progress = ResetProgress
        /\ loading = "false"

\* the part of C6 that parseFiles decides by itself: the returned value, the
\* SET_ERROR payload and the progress reset
C6_FailureReturnsAndResetsProgress ==
    Failure =>
        /\ result.error = errorMsg
        /\ errorMsg # "null"
        /\ progress = ResetProgress

StageOrder == <<"units", "sort", "clean", "merge", "validate", "done">>

\* the stages that happened, without the failure that may end them
StagesReached ==
    IF stages # <<>> /\ stages[Len(stages)] = "failed"
    THEN SubSeq(stages, 1, Len(stages) - 1) ELSE stages

\* C20: the stages of a run occur in the order units, sort, genre cleaning,
\* merge, corpus validation, completion; the cleaner is called at most once
\* and before the merge, and the merge at most once, with the cleaner's
\* output.
C20_StageOrder ==
    /\ Len(StagesReached) <= Len(StageOrder)
    /\ StagesReached = SubSeq(StageOrder, 1, Len(StagesReached))
    /\ Len(cleanerCalls) <= 1 /\ Len(mergeCalls) <= 1
    /\ Len(mergeCalls) = 1 =>
          /\ Len(cleanerCalls) = 1
          /\ mergeCalls[1] = cleanGenreData(cleanerCalls[1])
    /\ Len(cleanerCalls) = 1 => cleanerCalls[1] = allListens

\* a run that went through every stage
C20_Witness ==
    /\ pc = "done" /\ result.success
    /\ stages = StageOrder
    /\ Len(cleanerCalls) = 1 /\ Len(mergeCalls) = 1
    /\ Len(mergeCalls[1]) >= 2

(***************************************************************************)
(* fetchAllUserListens (utils/api/listenbrainz.js)                         *)
(*                                                                         *)
(* A listen of the upstream history is [id, listened_at]; listened_at 0    *)
(* stands for a listen without the field.  The cursor maxTs is 0 for null. *)
(***************************************************************************)
\* batchSize, scaled down from the program's 1000
batchSize == 2

MaxHistory == 4
MaxTime == 6

\* the most page requests one call is followed through
MaxRequests == 4

\* upstream histories: newest first
Histories ==
    { h \in UNION { [1..n -> 0..MaxTime] : n \in 0..MaxHistory } :
        \A k \in 1..Len(h) - 1 : h[k] >= h[k + 1] }

UpstreamListens(h) == [k \in 1..Len(h) |-> [id |-> k, listened_at |-> h[k]]]

RECURSIVE SelectBelow(_, _)
SelectBelow(seq, ts) ==
    IF seq = <<>> THEN <<>>
    ELSE IF seq[1].listened_at < ts THEN <<seq[1]>> \o SelectBelow(Tail(seq), ts)
    ELSE SelectBelow(Tail(seq), ts)

\* The upstream's answer to user/<name>/listens?count=<count>[&max_ts=<ts>]:
\* the newest count listens, of those strictly below max_ts when it is sent
\* (if (maxTs) url += `&max_ts=${maxTs}`: a cursor of 0 or null is not sent).
UpstreamPage(count, ts) ==
    LET eligible == IF ts # 0 THEN SelectBelow(history, ts) ELSE history
    IN  SubSeq(eligible, 1, IF Len(eligible) < count THEN Len(eligible) ELSE count)

FetchReturn(success, error, listens) ==
    [kind |-> "return", success |-> success, error |-> error, listens |-> listens]
FetchThrow(error) ==
    [kind |-> "throw", success |-> FALSE, error |-> error, listens |-> <<>>]

\* fetchUserListens, lines 67-74: a fetch that rejects, because the request
\* failed or because the signal aborted it, is turned into a returned result
fetchUserListensCatch(error) == FetchReturn(FALSE, error, <<>>)

\* lines 86-94: the top of an iteration
FetchTop ==
    /\ fpc = "top"
    /\ IF aborted # "no"
       THEN /\ fresult' = FetchThrow("AbortError")
            /\ fpc' = "done"
            /\ UNCHANGED requests
       ELSE /\ Len(requests) < MaxRequests
            /\ requests' = Append(requests, maxTs)
            /\ fpc' = "fetching"
            /\ UNCHANGED fresult
    /\ UNCHANGED <<aborted, maxTs, maxListens, hasMore, fetched, history>>
    /\ UNCHANGED <<pvars, dvars, uvars, mvars>>

\* lines 94-131: fetchUserListens settles and the page is taken in
PageArrives ==
    /\ fpc = "fetching"
    /\ \E ok \in BOOLEAN :
         IF aborted # "no" \/ ~ok
         THEN \* line 96-99
              /\ fresult' = fetchUserListensCatch(
                                IF aborted # "no" THEN "The operation was aborted"
                                ELSE "API returned 500")
              /\ fpc' = "done"
              /\ UNCHANGED <<maxTs, hasMore, fetched>>
         ELSE LET listens == UpstreamPage(batchSize, maxTs)
                  oldestTimestamp ==
                      IF listens = <<>> THEN 0 ELSE listens[Len(listens)].listened_at
                  all == fetched \o listens
                  more == /\ listens # <<>>
                          /\ oldestTimestamp # 0
                          /\ ~(Len(listens) < batchSize)
                          /\ ~(maxListens # 0 /\ Len(all) >= maxListens)
              IN  /\ fetched' = all
                  /\ maxTs' = IF listens # <<>> /\ oldestTimestamp # 0
                              THEN oldestTimestamp - 1 ELSE maxTs
                  /\ hasMore' = more
                  /\ IF more
                     THEN fpc' = "cooldown" /\ UNCHANGED fresult
                     ELSE /\ fpc' = "done"
                          /\ fresult' = FetchReturn(TRUE, "", all)
    /\ UNCHANGED <<aborted, maxListens, requests, history>>
    /\ UNCHANGED <<pvars, dvars, uvars, mvars>>

\* line 130: the 250 ms cooldown ends
CooldownDone ==
    /\ fpc = "cooldown"
    /\ fpc' = "top"
    /\ UNCHANGED <<aborted, maxTs, maxListens, hasMore, fetched, requests,
                   history, fresult>>
    /\ UNCHANGED <<pvars, dvars, uvars, mvars>>

\* the caller aborts the signal while the call is running
Abort ==
    /\ aborted = "no"
    /\ fpc \in {"top", "fetching", "cooldown"}
    /\ aborted' = fpc
    /\ UNCHANGED <<fpc, maxTs, maxListens, hasMore, fetched, requests, history,
                   fresult>>
    /\ UNCHANGED <<pvars, dvars, uvars, mvars>>

InitFetch ==
    /\ ParseIdle /\ DbIdle /\ PureIdle /\ MigrateIdle
    /\ fpc = "top"
    /\ aborted = "no"
    /\ maxTs = 0
    /\ maxListens \in {0, 1, 3}
    /\ hasMore = TRUE
    /\ fetched = <<>>
    /\ requests = <<>>
    /\ history \in { UpstreamListens(h) : h \in Histories }
    /\ fresult = [kind |-> "none", success |-> FALSE, error |-> "", listens |-> <<>>]

NextFetch == FetchTop \/ PageArrives \/ CooldownDone \/ Abort

SpecFetch == InitFetch /\ [][NextFetch]_vars

\* C7: once the signal is aborted before the last page has been received,
\* the call ends by raising the abort error and returns no result.
C7_AbortAlwaysRaises ==
    (fpc = "done" /\ aborted # "no") =>
        fresult.kind = "throw" /\ fresult.error = "AbortError"

\* line 12: if (maxTs) url += `&max_ts=${maxTs}` -- whether a page request
\* made with this cursor carries a max_ts parameter
CarriesMaxTs(ts) == ts # 0

\* the last (oldest) listen of the k-th page received; every page that was
\* followed by another request was a full one (lines 118-121)
LastOfPage(k) == fetched[k * batchSize]

\* C21: the first page is requested without a cursor, and every later page
\* request carries max_ts = listened_at of the last listen of the page
\* received before it, minus one, whatever that timestamp is.
C21_CursorIsOldestMinusOne ==
    /\ Len(requests) >= 1 => ~CarriesMaxTs(requests[1])
    /\ \A k \in 2..Len(requests) :
          /\ CarriesMaxTs(requests[k])
          /\ requests[k] = LastOfPage(k - 1).listened_at - 1

\* What the code does guarantee: the cursor is the oldest timestamp minus
\* one whenever that timestamp is above 1.
C21_CursorAboveOne ==
    /\ Len(requests) >= 1 => ~CarriesMaxTs(requests[1])
    /\ \A k \in 2..Len(requests) :
          LastOfPage(k - 1).listened_at > 1 =>
              /\ CarriesMaxTs(requests[k])
              /\ requests[k] = LastOfPage(k - 1).listened_at - 1

C21_CursorAboveOneWitness ==
    /\ Len(requests) >= 3
    /\ LastOfPage(1).listened_at > LastOfPage(2).listened_at
    /\ LastOfPage(2).listened_at > 1

\* The call as the event loop runs it: a page request settles (the fetch
\* resolves or rejects), the timer of the cooldown fires, and the function
\* resumes after each await.
SpecFetchFair ==
    /\ InitFetch /\ [][NextFetch]_vars
    /\ WF_vars(FetchTop) /\ WF_vars(PageArrives) /\ WF_vars(CooldownDone)

\* C22: against a finite history served by an upstream that honours max_ts,
\* the call eventually ends.
C22_Terminates == <>(fpc = "done")

\* C22: while the call pages through a finite history, the cursor strictly
\* decreases from one page request to the next (the first request has
\* none), which is what makes the paging end.
C22_CursorDecreases ==
    \A k \in 3..Len(requests) : requests[k] < requests[k - 1]

\* no full page of the history can end on a listen with listened_at = 1
NoListenAtOne == \A k \in 1..Len(history) : history[k].listened_at # 1

\* The call ends whenever the cursor computed at line 112 cannot be 0.
C22_TerminatesAboveOne == NoListenAtOne => <>(fpc = "done")

\* the stop conditions of lines 96-127, each ending the paging
C22_StopsPaging ==
    [][(fpc = "fetching" /\ fpc' = "cooldown") =>
          /\ Len(fetched') - Len(fetched) = batchSize
          /\ fetched'[Len(fetched')].listened_at # 0
          /\ ~(maxListens # 0 /\ Len(fetched') >= maxListens)]_vars

\* C23: a call that completes successfully without a maxListens cap and
\* without abort returns every listen of the history exactly once.
C23_EveryListenExactlyOnce ==
    (fpc = "done" /\ fresult.kind = "return" /\ fresult.success
        /\ maxListens = 0 /\ aborted = "no"
        /\ \A k \in 1..Len(history) : history[k].listened_at # 0)
    => fresult.listens = history

\* timestamps at least two apart, none missing, none equal to 1
Spaced ==
    /\ NoListenAtOne
    /\ \A k \in 1..Len(history) : history[k].listened_at # 0
    /\ \A k \in 1..Len(history) - 1 :
          history[k].listened_at - history[k + 1].listened_at >= 2

\* What the code does guarantee: the history is returned whole when no two
\* of its listens are less than two seconds apart.
C23_CompleteWhenSpaced ==
    (Spaced /\ fpc = "done" /\ fresult.kind = "return" /\ fresult.success
        /\ maxListens = 0 /\ aborted = "no")
    => fresult.listens = history

C23_CompleteWhenSpacedWitness ==
    /\ Spaced /\ fpc = "done" /\ fresult.success
    /\ maxListens = 0 /\ aborted = "no"
    /\ Len(requests) >= 2 /\ Len(fresult.listens) > batchSize


(***************************************************************************)
(* The merge step on its own: one cleaned batch merged repeatedly           *)
(***************************************************************************)
MaxBatch == 3
MaxMerges == 2

Cleaned(la, tn, an, source) ==
    [Listen(JNum(la), JNum(Times1000(la)), tn, an, 0, source, 1)
        EXCEPT !.genre = "cleaned"]

BatchPool ==
    { Cleaned(T0, "Alpha", "Ann", "listenbrainz"),
      Cleaned(T1, "Beta", "Bob", "listenbrainz"),
      Cleaned(T0, "Gamma", "Unknown Artist", "listenbrainz"),
      Cleaned(T0, "Alpha", "Ann", "spotify") }

Batches == UNION { [1..n -> BatchPool] : n \in 0..MaxBatch }

\* lines 153-157 of parseFiles: the batch in arg is merged into the corpus
MergeBatch ==
    /\ Len(mergeLog) < MaxMerges
    /\ LET mergeResult == mergeListeningData(db, arg) IN
         /\ db' = mergeResult.data
         /\ mergeLog' = Append(mergeLog,
                [batch |-> Len(arg),
                 duplicates |-> mergeResult.mergeInfo.duplicates,
                 data |-> mergeResult.data])
    /\ UNCHANGED <<pvars, fvars, uvars, mvars>>

InitMerge ==
    /\ ParseIdle /\ FetchIdle /\ MigrateIdle
    /\ db \in {<<>>, EarlierImport}
    /\ mergeLog = <<>>
    /\ arg \in Batches
    /\ out = NoOutcome

NextMerge == MergeBatch

SpecMerge == InitMerge /\ [][NextMerge]_vars

\* C8: when the same batch is merged twice in succession, the second merge
\* reports as many duplicates as the batch has listens and leaves the
\* persisted corpus with the same records as after the first merge.
C8_SecondMergeAllDuplicates ==
    Len(mergeLog) = 2 =>
        /\ mergeLog[2].duplicates = mergeLog[2].batch
        /\ Len(mergeLog[2].data) = Len(mergeLog[1].data)
        /\ mergeLog[2].data = mergeLog[1].data

C8_Witness ==
    /\ Len(mergeLog) = 2
    /\ mergeLog[2].batch = 3
    /\ mergeLog[1].duplicates = 1
    /\ Len(db) = 3

(***************************************************************************)
(* The timestamp converter on its own                                      *)
(***************************************************************************)
Convert ==
    /\ out.fn = "none"
    /\ out' = [fn |-> "convertSpotifyTimestamp", r |-> convertSpotifyTimestamp(arg)]
    /\ UNCHANGED <<arg, pvars, dvars, fvars, mvars>>

InitNorm ==
    /\ ParseIdle /\ DbIdle /\ FetchIdle /\ MigrateIdle
    /\ arg \in TsInputs
    /\ out = NoOutcome

NextNorm == Convert

SpecNorm == InitNorm /\ [][NextNorm]_vars

\* C9: for every input in a supported encoding the converter returns a value
\* in the canonical range [946684800, 2147483647].
C9_SupportedInputInRange ==
    (out.fn = "convertSpotifyTimestamp" /\ SupportedEncoding(arg)) =>
        InCanonicalRange(out.r)

\* C24: an already-canonical epoch-seconds value, any integer in
\* [946684800, 2147483647], is returned unchanged.
C24_CanonicalUnchanged ==
    (out.fn = "convertSpotifyTimestamp" /\ InCanonicalRange(arg)) => out.r = arg

\* What the code does guarantee: a number strictly between 1000000000 and
\* 2000000000 is returned unchanged.
C24_EpochSecondsUnchanged ==
    (out.fn = "convertSpotifyTimestamp" /\ IsEpochSeconds(arg)) => out.r = arg

C24_EpochSecondsUnchangedWitness ==
    /\ out.fn = "convertSpotifyTimestamp"
    /\ arg = JNum(ToNum(1000000001)) /\ out.r = arg


(***************************************************************************)
(* The Spotify parsers on their own                                        *)
(***************************************************************************)
MaxRecords == 2

SpotifyRecords ==
    { RawRec(FALSE, JUndef, FALSE, "", "", ts, mtn, man, "", ms) :
        ts \in {JIso(Times1000(T0)), JEmpty},
        mtn \in {"Delta", ""},
        man \in {"Dan", ""},
        ms \in {0, 29999, 30000, 30001} }
    \cup { RawRec(FALSE, JUndef, FALSE, "", "", JIso(Times1000(T1)), "", "Dan",
                  "spotify:track:x", ms) : ms \in {29999, 30000} }
    \cup { NullRec }

SpotifyArrays == UNION { [1..n -> SpotifyRecords] : n \in 0..MaxRecords }

ParseSpotify ==
    /\ out.fn = "none"
    /\ out' = [fn |-> "parseSpotifyFormat", r |-> parseSpotifyFormat(ArrayData(arg))]
    /\ UNCHANGED <<arg, pvars, dvars, fvars, mvars>>

ParseSpotifyImported ==
    /\ out.fn = "none"
    /\ out' = [fn |-> "parseSpotifyFormatImported",
               r |-> parseSpotifyFormatImported(ArrayData(arg))]
    /\ UNCHANGED <<arg, pvars, dvars, fvars, mvars>>

InitSpotify ==
    /\ ParseIdle /\ DbIdle /\ FetchIdle /\ MigrateIdle
    /\ arg \in SpotifyArrays
    /\ out = NoOutcome

NextSpotify == ParseSpotify \/ ParseSpotifyImported

SpecSpotify == InitSpotify /\ [][NextSpotify]_vars

\* a record with a non-empty ts, track name and artist name
Complete(item) ==
    /\ ~item.isNull
    /\ item.ts.t \in {"iso", "badstr", "num"}
    /\ item.master_metadata_track_name # ""
    /\ item.master_metadata_album_artist_name # ""

\* C10: every listen a Spotify parser produces comes from a record with
\* ms_played >= 30000; every complete record with ms_played = 30000 is kept;
\* and the parse of an array with records succeeds whatever it drops.
C10_MinPlayThreshold ==
    out.fn # "none" =>
        /\ \A j \in 1..Len(out.r.listens) :
              /\ arg[out.r.listens[j].inputIndex].ms_played >= 30000
              /\ out.r.listens[j].msPlayed >= 30000
        /\ \A k \in 1..Len(arg) :
              (Complete(arg[k]) /\ arg[k].ms_played = 30000) =>
                  \E j \in 1..Len(out.r.listens) : out.r.listens[j].inputIndex = k
        /\ Len(arg) > 0 => out.r.kind = "ok"

\* The same on arrays without a null element
C10_ThresholdOnObjects ==
    (out.fn # "none" /\ \A k \in 1..Len(arg) : ~arg[k].isNull) =>
        C10_MinPlayThreshold

(***************************************************************************)
(* The format parsers on batches that hold a malformed record              *)
(***************************************************************************)
\* { payload: { listens: [...] } }: the ListenBrainz API envelope
EnvelopeData(listens) == [kind |-> "envelope", items |-> listens]

\* parseListenBrainzFormat of unnamed/part_001
parseListenBrainzFormatImported(data) ==
    IF data.kind \in {"null", "badjson"}
    THEN Threw("Cannot read properties of null")
    ELSE LET listens == IF data.kind \in {"array", "envelope"} THEN data.items
                        ELSE <<>> IN
         IF Len(listens) = 0 THEN Threw("No listens found in ListenBrainz file")
         ELSE IF \E k \in 1..Len(listens) : listens[k].isNull
         THEN Threw("Cannot read properties of null")
         ELSE Ok([k \in 1..Len(listens) |->
                    Listen(listens[k].listened_at, JUndef,
                           OrStr(IF listens[k].track_metadata
                                 THEN listens[k].track_name ELSE "",
                                 "Unknown Track"),
                           OrStr(IF listens[k].track_metadata
                                 THEN listens[k].artist_name ELSE "",
                                 "Unknown Artist"),
                           0, "listenbrainz", k)],
                 "listenbrainz")

MaxBatchRecords == 3

\* well-formed and malformed ListenBrainz records: null, no track_metadata,
\* no listened_at
LbBatchRecords ==
    { LbRec(JNum(T0), "Alpha", "Ann"), LbRec(JNum(T1), "Beta", "Bob"),
      NullRec,
      RawRec(FALSE, JNum(T0), FALSE, "", "", JUndef, "", "", "", 0),
      LbRec(JUndef, "Gamma", "Gil") }

\* well-formed and malformed Spotify records: null, no ts, no metadata
SpBatchRecords ==
    { SpRec(JIso(Times1000(T0)), "Delta", "Dan", 30000),
      SpRec(JIso(Times1000(T1)), "Echo", "Eve", 45000),
      NullRec,
      SpRec(JUndef, "Delta", "Dan", 30000),
      RawRec(FALSE, JUndef, FALSE, "", "", JIso(Times1000(T0)), "", "", "", 30000) }

LbBatches == UNION { [1..n -> LbBatchRecords] : n \in 1..MaxBatchRecords }
SpBatches == UNION { [1..n -> SpBatchRecords] : n \in 1..MaxBatchRecords }

ParseLb ==
    /\ out.fn = "none"
    /\ arg \in LbBatches
    /\ out' = [fn |-> "parseListenBrainzFormat",
               r |-> parseListenBrainzFormat(ArrayData(arg))]
    /\ UNCHANGED <<arg, pvars, dvars, fvars, mvars>>

ParseLbImported ==
    /\ out.fn = "none"
    /\ arg \in LbBatches
    /\ out' = [fn |-> "parseListenBrainzFormatImported",
               r |-> parseListenBrainzFormatImported(ArrayData(arg))]
    /\ UNCHANGED <<arg, pvars, dvars, fvars, mvars>>

ParseSp ==
    /\ arg \in SpBatches
    /\ ParseSpotify

ParseSpImported ==
    /\ arg \in SpBatches
    /\ ParseSpotifyImported

InitBatch ==
    /\ ParseIdle /\ DbIdle /\ FetchIdle /\ MigrateIdle
    /\ arg \in LbBatches \cup SpBatches
    /\ out = NoOutcome

NextBatch == ParseLb \/ ParseLbImported \/ ParseSp \/ ParseSpImported

SpecBatch == InitBatch /\ [][NextBatch]_vars

WellFormedLb(item) ==
    /\ ~item.isNull
    /\ item.listened_at.t = "num"
    /\ item.track_metadata
    /\ item.track_name # "" /\ item.artist_name # ""

WellFormedSp(item) ==
    /\ Complete(item)
    /\ item.ts.t = "iso"
    /\ item.ms_played >= MinMsPlayed

WellFormed(item) == WellFormedLb(item) \/ WellFormedSp(item)

\* the batch holds well-formed records and exactly one malformed one
OneMalformed(batch) ==
    /\ \E k \in 1..Len(batch) : WellFormed(batch[k])
    /\ Cardinality({k \in 1..Len(batch) : ~WellFormed(batch[k])}) = 1

\* the parse succeeded and every well-formed record of the batch is in it
KeepsWellFormed(batch, r) ==
    /\ r.kind = "ok"
    /\ \A k \in 1..Len(batch) :
          WellFormed(batch[k]) =>
              \E j \in 1..Len(r.listens) :
                  /\ r.listens[j].inputIndex = k
                  /\ r.listens[j].trackName \in
                        {batch[k].track_name, batch[k].master_metadata_track_name}

\* C11: a batch with one malformed record (null, or missing its metadata or
\* its timestamp) among well-formed records still parses successfully and
\* the result holds the well-formed records.
C11_MalformedRecordIsolated ==
    (out.fn # "none" /\ OneMalformed(arg)) => KeepsWellFormed(arg, out.r)

\* The same when the malformed record is an object, not null: the missing
\* fields are defaulted or the record is dropped, and the parse succeeds.
C11_MalformedObjectIsolated ==
    (out.fn # "none" /\ OneMalformed(arg) /\ \A k \in 1..Len(arg) : ~arg[k].isNull)
        => KeepsWellFormed(arg, out.r)

C11_MalformedObjectWitness ==
    /\ out.fn # "none" /\ OneMalformed(arg)
    /\ \A k \in 1..Len(arg) : ~arg[k].isNull
    /\ Len(out.r.listens) >= 2

(***************************************************************************)
(* The format detectors on their own                                       *)
(***************************************************************************)
\* detectDataFormat of unnamed/part_001: the detected format, or "throw"
detectDataFormatImported(data, fileName) ==
    IF data.kind \in {"null", "badjson"} THEN "throw"
    ELSE IF data.kind = "array" /\ Len(data.items) > 0 /\ data.items[1].isNull
    THEN "throw"
    ELSE IF /\ data.kind = "array" /\ Len(data.items) > 0
            /\ Truthy(data.items[1].listened_at) /\ data.items[1].track_metadata
    THEN "listenbrainz"
    ELSE IF /\ data.kind = "array" /\ Len(data.items) > 0
            /\ Truthy(data.items[1].ts)
            /\ data.items[1].master_metadata_track_name # ""
    THEN "spotify"
    ELSE IF data.kind = "envelope" THEN "listenbrainz"
    ELSE IF LowerIncludes(fileName, "spotify") \/ LowerIncludes(fileName, "streaming")
    THEN "spotify"
    ELSE "throw"

MaxDetectRecords == 2

DetectRecords ==
    { LbRec(JNum(T0), "Alpha", "Ann"),
      SpRec(JIso(Times1000(T0)), "Delta", "Dan", 30000),
      SpRec(JIso(Times1000(T0)), "", "Dan", 30000),
      RawRec(FALSE, JUndef, FALSE, "", "", JUndef, "", "", "", 0),
      NullRec }

DetectData ==
    { ArrayData(a) : a \in UNION { [1..n -> DetectRecords] : n \in 0..MaxDetectRecords } }
    \cup { EnvelopeData(a) : a \in UNION { [1..n -> DetectRecords] : n \in 0..1 } }
    \cup { ObjectData(r) : r \in DetectRecords \ {NullRec} }
    \cup { NullData }

DetectNames ==
    { "", "my_spotify_data.json", "Streaming_History_Audio_2021.json",
      "ListenBrainz_export.json", "lastfm.json", "my_streaming.json" }

DetectUniversal ==
    /\ out.fn = "none"
    /\ out' = [fn |-> "detectDataFormat",
               r |-> detectDataFormat(arg.data, arg.fileName)]
    /\ UNCHANGED <<arg, pvars, dvars, fvars, mvars>>

DetectImported ==
    /\ out.fn = "none"
    /\ out' = [fn |-> "detectDataFormatImported",
               r |-> detectDataFormatImported(arg.data, arg.fileName)]
    /\ UNCHANGED <<arg, pvars, dvars, fvars, mvars>>

InitDetect ==
    /\ ParseIdle /\ DbIdle /\ FetchIdle /\ MigrateIdle
    /\ arg \in [data : DetectData, fileName : DetectNames]
    /\ out = NoOutcome

NextDetect == DetectUniversal \/ DetectImported

SpecDetect == InitDetect /\ [][NextDetect]_vars

\* the first three rules in the stated order: "none" when none matches
ContentRule(data) ==
    IF /\ data.kind = "array" /\ Len(data.items) > 0 /\ ~data.items[1].isNull
       /\ Truthy(data.items[1].listened_at) /\ data.items[1].track_metadata
    THEN "listenbrainz"
    ELSE IF /\ data.kind = "array" /\ Len(data.items) > 0 /\ ~data.items[1].isNull
            /\ Truthy(data.items[1].ts)
            /\ data.items[1].master_metadata_track_name # ""
    THEN "spotify"
    ELSE IF data.kind = "envelope" THEN "listenbrainz"
    ELSE "none"

\* C12: the detector returns the format of the first matching rule in the
\* order sequence-with-listened_at, sequence-with-ts, payload.listens
\* envelope, file name; an envelope is ListenBrainz whatever the file name,
\* in every detector.
C12_FirstMatchWins ==
    (out.fn # "none" /\ ContentRule(arg.data) # "none") =>
        out.r = ContentRule(arg.data)

\* The detector of part_001 alone follows the order of the three content rules
C12_ImportedDetectorOrder ==
    (out.fn = "detectDataFormatImported" /\ ContentRule(arg.data) # "none") =>
        out.r = ContentRule(arg.data)

\* The detector of universalParser.js follows the two sequence rules
C12_UniversalSequenceRules ==
    (out.fn = "detectDataFormat" /\ ContentRule(arg.data) # "none"
        /\ arg.data.kind = "array") => out.r = ContentRule(arg.data)

\* the file-name rule as stated: "spotify"/"streaming" or "listenbrainz"
\* anywhere in the lower-cased name, else the format is unrecognised
NameRule(fileName) ==
    IF LowerIncludes(fileName, "spotify") \/ LowerIncludes(fileName, "streaming")
    THEN "spotify"
    ELSE IF LowerIncludes(fileName, "listenbrainz") THEN "listenbrainz"
    ELSE "throw"

\* the parsed value is a sequence (possibly empty) or an object, with no
\* null in first position, and none of the content rules matches it (nor
\* would match the object as a sequence of one)
NoContentRule(data) ==
    /\ data.kind \in {"array", "object"}
    /\ Len(data.items) > 0 => ~data.items[1].isNull
    /\ ContentRule(ArrayData(data.items)) = "none"

\* C25: when no content rule matches the parsed value (an empty sequence and
\* an object without recognised fields included), the detector decides from
\* the file name alone: "spotify"/"streaming" gives spotify, "listenbrainz"
\* gives listenbrainz, anything else fails.
C25_FileNameRule ==
    (out.fn # "none" /\ NoContentRule(arg.data)) => out.r = NameRule(arg.fileName)

\* What both detectors do guarantee: for a non-empty value whose first
\* record has no ts, a name containing "spotify" gives spotify and a name
\* with none of the known substrings fails.
C25_SpotifyNameOrFail ==
    (out.fn # "none" /\ NoContentRule(arg.data) /\ Len(arg.data.items) > 0
        /\ ~Truthy(arg.data.items[1].ts)
        /\ arg.fileName \in {"", "my_spotify_data.json"})
    => out.r = NameRule(arg.fileName)

C25_SpotifyNameOrFailWitness ==
    /\ out.fn # "none" /\ NoContentRule(arg.data) /\ Len(arg.data.items) > 0
    /\ ~Truthy(arg.data.items[1].ts)
    /\ arg.fileName = "my_spotify_data.json" /\ out.r = "spotify"


(***************************************************************************)
(* validateUniversalData (utils/parsers/universalParser.js)                *)
(***************************************************************************)
\* a number below 2^31 as an integer
ToInt(n) == n[1] * 1000 + n[2]

\* typeof ts === 'number' && ts > MIN_TIMESTAMP && ts < MAX_TIMESTAMP
ValidTimestamp(ts) ==
    /\ ts.t \in {"num", "nan"}
    /\ ts.t = "num"
    /\ NumGt(ts.v, ToNum(MIN_TIMESTAMP))
    /\ NumLt(ts.v, ToNum(MAX_TIMESTAMP))

\* validPercentage < 90, with validPercentage = (valid / total) * 100
BelowNinety(valid, total) == valid * 100 < 90 * total

\* 0.08 * 365.25 * 24 * 60 * 60
MinSpanSeconds == 2524608

\* yearSpan < 0.08, with yearSpan = (latest - earliest) / (365.25*24*60*60)
SpanTooShortUnder29Days(span) == span < 29 * 86400

SpanTooShort(span) == span < MinSpanSeconds

SetMin(S) == CHOOSE x \in S : \A y \in S : x <= y
SetMax(S) == CHOOSE x \in S : \A y \in S : x >= y

Invalid(error) ==
    [isValid |-> FALSE, error |-> error, valid |-> 0, total |-> 0,
     earliest |-> 0, latest |-> 0]

validateUniversalData(listens) ==
    IF Len(listens) = 0 THEN Invalid("No listens found in uploaded file.")
    ELSE LET timestamps == [k \in 1..Len(listens) |-> listens[k].listened_at]
             validIdx   == {k \in 1..Len(timestamps) : ValidTimestamp(timestamps[k])}
             validTimestamps == {ToInt(timestamps[k].v) : k \in validIdx}
             nValid == Cardinality(validIdx)
         IN  IF BelowNinety(nValid, Len(timestamps))
             THEN [Invalid("Data contains too many invalid timestamps")
                      EXCEPT !.valid = nValid, !.total = Len(timestamps)]
             ELSE LET earliest == SetMin(validTimestamps)
                      latest   == SetMax(validTimestamps)
                  IN  IF SpanTooShort(latest - earliest)
                      THEN [Invalid("Data span too short.")
                               EXCEPT !.valid = nValid, !.total = Len(timestamps),
                                      !.earliest = earliest, !.latest = latest]
                      ELSE [isValid |-> TRUE, error |-> "", valid |-> nValid,
                            total |-> Len(timestamps),
                            earliest |-> earliest, latest |-> latest]

MaxRepeat == 9
MaxTail == 2

Day == 86400

\* listened_at values around the limits of the range and of the span
ValidateValues ==
    { JNum(ToNum(MIN_TIMESTAMP - 1)), JNum(ToNum(MIN_TIMESTAMP)),
      JNum(ToNum(MIN_TIMESTAMP + 1)),
      JNum(ToNum(MAX_TIMESTAMP - 1)), JNum(ToNum(MAX_TIMESTAMP)),
      JNum(<<2147483, 648>>),
      JNum(NumAdd(T0, 29 * Day)), JNum(NumAdd(T0, 31 * Day)),
      JNum(NumAdd(T0, MinSpanSeconds - 1)), JNum(NumAdd(T0, MinSpanSeconds)),
      JNaN, JIso(Times1000(T0)), JUndef }

Timed(ts) == [listened_at |-> ts]

\* batches: a run of listens at T0 followed by a few listens of any value
ValidateBatches ==
    { [k \in 1..n |-> Timed(JNum(T0))] \o tail :
        n \in 0..MaxRepeat,
        tail \in UNION { [1..m -> {Timed(v) : v \in ValidateValues}] : m \in 0..MaxTail } }

Validate ==
    /\ out.fn = "none"
    /\ out' = [fn |-> "validateUniversalData", r |-> validateUniversalData(arg)]
    /\ UNCHANGED <<arg, pvars, dvars, fvars, mvars>>

InitValidate ==
    /\ ParseIdle /\ DbIdle /\ FetchIdle /\ MigrateIdle
    /\ arg \in ValidateBatches
    /\ out = NoOutcome

NextValidate == Validate

SpecValidate == InitValidate /\ [][NextValidate]_vars

\* a number in the inclusive range [946684800, 2147483647]
Plausible(ts) == ts.t = "num" /\ InCanonicalRange(ts)

PlausibleCount(batch) ==
    Cardinality({k \in 1..Len(batch) : Plausible(batch[k].listened_at)})

QualityError == "Data contains too many invalid timestamps"

\* C13: a listen counts as plausible exactly when its listened_at is a number
\* in [946684800, 2147483647] (both ends included), and the batch fails the
\* data-quality check exactly when fewer than 90% are plausible.
C13_PlausibleInclusive ==
    (out.fn = "validateUniversalData" /\ Len(arg) > 0) =>
        /\ (out.r.error = QualityError) <=>
               (PlausibleCount(arg) * 100 < 90 * Len(arg))
        /\ out.r.error # "No listens found in uploaded file." =>
               out.r.valid = PlausibleCount(arg)

\* The same on batches that hold neither end of the range
C13_PlausibleInside ==
    (out.fn = "validateUniversalData" /\ Len(arg) > 0
        /\ \A k \in 1..Len(arg) :
              arg[k].listened_at \notin {JNum(ToNum(MIN_TIMESTAMP)),
                                         JNum(ToNum(MAX_TIMESTAMP))}) =>
        /\ (out.r.error = QualityError) <=>
               (PlausibleCount(arg) * 100 < 90 * Len(arg))
        /\ out.r.valid = PlausibleCount(arg)

\* a batch of ten with exactly nine plausible timestamps passes the check
C13_ExactlyNinetyWitness ==
    /\ out.fn = "validateUniversalData"
    /\ Len(arg) = 10 /\ out.r.valid = 9 /\ PlausibleCount(arg) = 9
    /\ out.r.error # QualityError

\* C14: a batch that passes the plausibility check fails with the span error
\* when max - min of its valid timestamps is 29 days and succeeds when it is
\* 31 days; timestamps outside the range do not count towards the span.
C14_SpanThreshold ==
    (out.fn = "validateUniversalData" /\ Len(arg) > 0
        /\ out.r.error # QualityError) =>
        LET valid == {ToInt(arg[k].listened_at.v) :
                        k \in {j \in 1..Len(arg) : ValidTimestamp(arg[j].listened_at)}}
            span  == SetMax(valid) - SetMin(valid)
        IN  /\ span = 29 * Day => (~out.r.isValid /\ out.r.error = "Data span too short.")
            /\ span = 31 * Day => out.r.isValid
            /\ out.r.latest - out.r.earliest = span

\* a 29-day batch that failed and holds a timestamp outside the range
C14_Witness29 ==
    /\ out.fn = "validateUniversalData"
    /\ out.r.error = "Data span too short."
    /\ out.r.latest - out.r.earliest = 29 * Day
    /\ out.r.valid < out.r.total

\* a 31-day batch that passed and holds a timestamp outside the range
C14_Witness31 ==
    /\ out.fn = "validateUniversalData"
    /\ out.r.isValid
    /\ out.r.latest - out.r.earliest = 31 * Day
    /\ out.r.valid < out.r.total

(***************************************************************************)
(* calculateListeningFingerprint (utils/listeningStats.js)                 *)
(*                                                                         *)
(* Ratios are kept exact (numerator, denominator); Math.log2 is tabulated  *)
(* in units of 1/LogScale.                                                 *)
(***************************************************************************)
\* A listen as the fingerprint reads it.  An absent string field is
\* "undefined", an empty one is "".
FpListen(ts, la, artist, track, g0, ng, g) ==
    [ timestamp |-> ts, listened_at |-> la,
      artistName |-> artist, trackName |-> track,
      genres0 |-> g0,               \* genres?.[0]
      normalizedGenre |-> ng,
      genre |-> g ]

\* Boolean(name)
HasName(name) == name \notin {"", "undefined"}

\* a || b on JS values
JOr(a, b) == IF Truthy(a) THEN a ELSE b

\* listen.genres?.[0] || listen.normalizedGenre || listen.genre || 'Unknown'
ResolveGenre(l) ==
    IF HasName(l.genres0) THEN l.genres0
    ELSE IF HasName(l.normalizedGenre) THEN l.normalizedGenre
    ELSE IF HasName(l.genre) THEN l.genre
    ELSE "Unknown"

\* Math.round(num / den) for num >= 0, den > 0
Round(num, den) == (2 * num + den) \div (2 * den)

NoCap(x) == x

\* Math.min(x, 100)
CapAt100(x) == IF x > 100 THEN 100 ELSE x

\* a - b for a >= b
NumSub(a, b) ==
    IF a[2] >= b[2] THEN <<a[1] - b[1], a[2] - b[2]>>
    ELSE <<a[1] - b[1] - 1, a[2] + 1000 - b[2]>>

\* Math.floor(n / 86400) and n % 86400 (432000 = 5 * 86400)
FloorDiv86400(n) == 5 * (n[1] \div 432) + ((n[1] % 432) * 1000 + n[2]) \div 86400
Mod86400(n) == ((n[1] % 432) * 1000 + n[2]) % 86400
\* Math.ceil(n / 86400)
CeilDiv86400(n) == FloorDiv86400(n) + (IF Mod86400(n) = 0 THEN 0 ELSE 1)

NumMax(S) == CHOOSE x \in S : \A y \in S : NumLe(y, x)
NumMin(S) == CHOOSE x \in S : \A y \in S : NumLe(x, y)

\* listen.timestamp || listen.listened_at
TimeOf(l) == JOr(l.timestamp, l.listened_at)

\* new Date(timestamp * 1000).toISOString() raises for a string (the product
\* is NaN).  Every number below 8.64e12 gives a valid date.
DateThrows(ts) == ts.t \in {"iso", "badstr"}

ZeroFingerprint ==
    [kind |-> "ok", consistency |-> 0, discovery |-> 0, variety |-> 0,
     replayRate |-> 0, exploration |-> 0]

NeutralFingerprint ==
    [kind |-> "ok", consistency |-> 50, discovery |-> 50, variety |-> 50,
     replayRate |-> 50, exploration |-> 50]

\* "threw" when toISOString raises
calculateConsistency(listens) ==
    LET timed == {k \in 1..Len(listens) : Truthy(TimeOf(listens[k]))}
        timestamps == {TimeOf(listens[k]).v : k \in timed}
        days == Cardinality({FloorDiv86400(t) : t \in timestamps})
    IN  IF \E k \in timed : DateThrows(TimeOf(listens[k])) THEN -1
        ELSE IF timed = {} THEN 50
        ELSE LET span == CeilDiv86400(NumSub(NumMax(timestamps), NumMin(timestamps)))
                 totalDays == IF span < 1 THEN 1 ELSE span
             IN  CapAt100(Round(days * 100, totalDays))

calculateDiscovery(listens) ==
    LET newArtistCount ==
            Cardinality({listens[k].artistName : k \in
                            {j \in 1..Len(listens) : HasName(listens[j].artistName)}})
    IN  IF newArtistCount * 1000 >= 100 * Len(listens) THEN 100
        ELSE Round(newArtistCount * 1000, Len(listens))

\* Math.log2(n) * LogScale, rounded
LogScale == 10000
Log2(n) ==
    CASE n = 1 -> 0
      [] n = 2 -> 10000
      [] n = 3 -> 15850
      [] n = 4 -> 20000
      [] n = 5 -> 23219
      [] n = 6 -> 25850
      [] n = 7 -> 28074
      [] n = 8 -> 30000

RECURSIVE SumOver(_, _)
SumOver(S, f) ==
    IF S = {} THEN 0
    ELSE LET x == CHOOSE y \in S : TRUE IN f[x] + SumOver(S \ {x}, f)

\* the track key `${artistName}-${trackName}`, and whether it is not '-'
TrackKey(l) == <<l.artistName, l.trackName>>
HasTrackKey(l) == l.artistName # "" \/ l.trackName # ""

UniqueArtists(listens) ==
    Cardinality({listens[k].artistName : k \in
                    {j \in 1..Len(listens) : HasName(listens[j].artistName)}})

UniqueTracks(listens) ==
    Cardinality({TrackKey(listens[k]) : k \in
                    {j \in 1..Len(listens) : HasTrackKey(listens[j])}})

\* genreCounts: the genres that occur, and how often each does
GenresOf(listens) ==
    {ResolveGenre(listens[k]) : k \in 1..Len(listens)} \ {"Unknown"}
GenreCount(listens, g) ==
    Cardinality({k \in 1..Len(listens) : ResolveGenre(listens[k]) = g})

\* entropy * totalListens * LogScale: the sum of count * (log2 total - log2 count)
EntropyNum(listens) ==
    SumOver(GenresOf(listens),
            [g \in GenresOf(listens) |->
                GenreCount(listens, g) * (Log2(Len(listens)) - Log2(GenreCount(listens, g)))])

\* the branch taken when uniqueGenres === 0
BasicVariety(listens) ==
    CapAt100(Round(UniqueArtists(listens) * 500 + UniqueTracks(listens) * 300,
                   2 * Len(listens)))

Min2(a, b) == IF a < b THEN a ELSE b

calculateVariety(listens) ==
    LET total == Len(listens)
        uniqueGenres == Cardinality(GenresOf(listens))
    IN  IF uniqueGenres = 0 THEN BasicVariety(listens)
        ELSE LET maxEntropy == IF uniqueGenres > 1 THEN Log2(uniqueGenres) ELSE LogScale
                 \* the two diversity terms, times total
                 artistTerm == Min2(150 * UniqueArtists(listens), 30 * total)
                 trackTerm  == Min2(90 * UniqueTracks(listens), 30 * total)
                 \* varietyScore = num / den before rounding
                 num == 40 * EntropyNum(listens) + (artistTerm + trackTerm) * maxEntropy
                 den == total * maxEntropy
             IN  CapAt100(Round(num, den))

calculateReplayRate(listens) ==
    LET keyed == {k \in 1..Len(listens) : HasTrackKey(listens[k])}
        keys == {TrackKey(listens[k]) : k \in keyed}
        replayedTracks ==
            Cardinality({key \in keys :
                Cardinality({k \in keyed : TrackKey(listens[k]) = key}) > 1})
        totalUniqueTracks == Cardinality(keys)
    IN  IF totalUniqueTracks = 0 THEN 50
        ELSE Round(replayedTracks * 100, totalUniqueTracks)

\* over the listens in the order the sort left them
calculateExploration(sorted) ==
    LET valid == {i \in 2..Len(sorted) :
                    /\ ResolveGenre(sorted[i - 1]) # "Unknown"
                    /\ ResolveGenre(sorted[i]) # "Unknown"}
        genreSwitches ==
            Cardinality({i \in valid : ResolveGenre(sorted[i - 1]) # ResolveGenre(sorted[i])})
        validComparisons == Cardinality(valid)
    IN  IF validComparisons = 0 THEN 50
        ELSE IF genreSwitches * 200 >= 100 * validComparisons THEN 100
        ELSE Round(genreSwitches * 200, validComparisons)

\* [...listens] left in the order given
UnsortedOrders(listens) == { listens }

\* the orders [...listens].sort((a, b) => key(a) - key(b)) may leave: the
\* stable order by key when every key is a number; any order when a key is
\* undefined or NaN (the comparator is then inconsistent and the order is
\* implementation-defined)
SortedOrders(listens) ==
    IF \A k \in 1..Len(listens) : TimeOf(listens[k]).t = "num"
    THEN LET sorted == StableSortByKey([k \in 1..Len(listens) |->
                          [key |-> TimeOf(listens[k]).v, item |-> listens[k]]])
         IN  { [k \in 1..Len(listens) |-> sorted[k].item] }
    ELSE { [k \in 1..Len(listens) |-> listens[f[k]]] :
             f \in {g \in [1..Len(listens) -> 1..Len(listens)] :
                      \A i, j \in 1..Len(listens) : g[i] = g[j] => i = j} }

\* a corpus argument: null / undefined, or an array
NullCorpus == [isNull |-> TRUE, items |-> <<>>]
Corpus(items) == [isNull |-> FALSE, items |-> items]

FingerprintThrew ==
    [kind |-> "threw", consistency |-> 0, discovery |-> 0, variety |-> 0,
     replayRate |-> 0, exploration |-> 0]

\* calculateListeningFingerprint, with the order the sort of
\* calculateExploration produced
calculateListeningFingerprint(corpus, sorted) ==
    IF corpus.isNull \/ Len(corpus.items) = 0 THEN NeutralFingerprint
    ELSE IF calculateConsistency(corpus.items) = -1 THEN FingerprintThrew
    ELSE [kind |-> "ok",
          consistency |-> calculateConsistency(corpus.items),
          discovery   |-> calculateDiscovery(corpus.items),
          variety     |-> calculateVariety(corpus.items),
          replayRate  |-> calculateReplayRate(corpus.items),
          exploration |-> calculateExploration(sorted)]

MaxCorpus == 3

Hour == Day \div 24

\* listens as the parsers and the genre cleaner leave them, and listens with
\* fields missing
CorpusListens ==
    { FpListen(JNum(Times1000(T0)), JNum(T0), "Ann", "Alpha", "rock", "", ""),
      FpListen(JUndef, JNum(NumAdd(T0, 12 * Hour)), "Ann", "Alpha", "", "rock", ""),
      FpListen(JUndef, JNum(NumAdd(T0, 23 * Hour)), "Bob", "Beta", "", "", "jazz"),
      FpListen(JUndef, JNum(NumAdd(T0, 25 * Hour)), "Cat", "Gamma", "", "", ""),
      FpListen(JNaN, JNaN, "Dan", "Delta", "", "", "rock"),
      FpListen(JUndef, JUndef, "undefined", "undefined",
               "undefined", "undefined", "undefined"),
      FpListen(JUndef, JNum(T1), "", "", "", "", "pop"),
      FpListen(JUndef, JNum(T0), "Ann", "Beta", "", "jazz", "rock"),
      FpListen(JUndef, JNum(NumAdd(T0, 30 * Day)), "Bob", "Alpha", "pop", "", "") }

Corpora ==
    { NullCorpus } \cup
    { Corpus(c) : c \in UNION { [1..n -> CorpusListens] : n \in 0..MaxCorpus } }

Fingerprint ==
    /\ out.fn = "none"
    /\ \E sorted \in SortedOrders(arg.items) :
          out' = [fn |-> "calculateListeningFingerprint",
                  r |-> calculateListeningFingerprint(arg, sorted)]
    /\ UNCHANGED <<arg, pvars, dvars, fvars, mvars>>

InitFingerprint ==
    /\ ParseIdle /\ DbIdle /\ FetchIdle /\ MigrateIdle
    /\ arg \in Corpora
    /\ out = NoOutcome

NextFingerprint == Fingerprint

SpecFingerprint == InitFingerprint /\ [][NextFingerprint]_vars

\* C15: for an empty list, or a null / undefined corpus, the fingerprint is
\* exactly consistency 50, discovery 50, variety 50, replayRate 50,
\* exploration 50.
C15_EmptyCorpusNeutral ==
    (out.fn = "calculateListeningFingerprint" /\ (arg.isNull \/ Len(arg.items) = 0)) =>
        /\ out.r.kind = "ok"
        /\ out.r.consistency = 50 /\ out.r.discovery = 50 /\ out.r.variety = 50
        /\ out.r.replayRate = 50 /\ out.r.exploration = 50

C15_Witness ==
    /\ out.fn = "calculateListeningFingerprint"
    /\ ~arg.isNull /\ Len(arg.items) = 0
    /\ out.r.variety = 50

C15_WitnessNull ==
    /\ out.fn = "calculateListeningFingerprint"
    /\ arg.isNull
    /\ out.r.variety = 50

Score(x) == x \in 0..100

\* C16: for every non-empty corpus, whatever fields its listens miss, each
\* of the five scores is an integer in [0, 100].
C16_ScoresInRange ==
    (out.fn = "calculateListeningFingerprint" /\ ~arg.isNull /\ Len(arg.items) > 0) =>
        /\ out.r.kind = "ok"
        /\ Score(out.r.consistency) /\ Score(out.r.discovery)
        /\ Score(out.r.variety) /\ Score(out.r.replayRate)
        /\ Score(out.r.exploration)

\* a corpus with a listen that misses every field and two listens on two
\* calendar days less than a day apart
C16_Witness ==
    /\ out.fn = "calculateListeningFingerprint"
    /\ ~arg.isNull /\ Len(arg.items) = 3
    /\ \E k \in 1..3 : ~Truthy(TimeOf(arg.items[k])) /\ ~HasName(arg.items[k].artistName)
    /\ \E i, j \in 1..3 :
          /\ TimeOf(arg.items[i]).t = "num" /\ TimeOf(arg.items[j]).t = "num"
          /\ FloorDiv86400(TimeOf(arg.items[i]).v) # FloorDiv86400(TimeOf(arg.items[j]).v)
          /\ NumLt(NumSub(TimeOf(arg.items[j]).v, TimeOf(arg.items[i]).v), ToNum(Day))
          /\ NumLt(TimeOf(arg.items[i]).v, TimeOf(arg.items[j]).v)
    /\ out.r.consistency = 100

\* the timestamps Consistency reads, when every listen has a numeric one
AllTimed(items) == \A k \in 1..Len(items) : Truthy(TimeOf(items[k]))
Timestamps(items) == {TimeOf(items[k]).v : k \in 1..Len(items)}

\* ceil((max - min timestamp) / 86400)
SpanDays(items) ==
    CeilDiv86400(NumSub(NumMax(Timestamps(items)), NumMin(Timestamps(items))))

\* distinct calendar days with at least one listen
ActiveDays(items) == Cardinality({FloorDiv86400(t) : t \in Timestamps(items)})

\* Consistency as stated: neutral when the denominator is zero, else the
\* rounded ratio capped at 100
StatedConsistency(items) ==
    IF SpanDays(items) = 0 THEN 50
    ELSE LET c == Round(ActiveDays(items) * 100, SpanDays(items))
         IN  IF c > 100 THEN 100 ELSE c

\* C26: Consistency is 50 whenever ceil((max - min timestamp)/86400) is zero,
\* that is for every non-empty corpus whose listens share one timestamp, and
\* otherwise round(active days / ceil((max - min)/86400) * 100) capped at 100.
C26_ConsistencyAsStated ==
    (out.fn = "calculateListeningFingerprint" /\ ~arg.isNull
        /\ Len(arg.items) > 0 /\ AllTimed(arg.items))
    => out.r.consistency = StatedConsistency(arg.items)

\* What the code does guarantee: the stated ratio when the denominator is
\* not zero.
C26_RatioWhenSpanPositive ==
    (out.fn = "calculateListeningFingerprint" /\ ~arg.isNull
        /\ Len(arg.items) > 0 /\ AllTimed(arg.items) /\ SpanDays(arg.items) > 0)
    => out.r.consistency = StatedConsistency(arg.items)

C26_RatioWhenSpanPositiveWitness ==
    /\ out.fn = "calculateListeningFingerprint" /\ ~arg.isNull
    /\ Len(arg.items) > 0 /\ AllTimed(arg.items)
    /\ SpanDays(arg.items) > 2 /\ ActiveDays(arg.items) = 2
    /\ out.r.consistency < 50


(***************************************************************************)
(* calculateVariety on two corpora that differ in their genre labels only  *)
(***************************************************************************)
VarietySize == 5

VarietyGenres == <<"rock", "jazz", "pop", "folk", "metal">>

\* artists and tracks of the corpus: one track played throughout, or a
\* different artist and track for every listen
RepeatedTrack(k) == <<"Ann", "Alpha">>
DistinctTrack(k) ==
    << <<"Ann", "Alpha">>, <<"Bob", "Beta">>, <<"Cat", "Gamma">>, <<"Dan", "Delta">>,
       <<"Eve", "Echo">>, <<"Fay", "Foxtrot">> >>[k]

\* genre labellings, as indexes into VarietyGenres (0: no genre), in
\* non-decreasing order
Labellings ==
    { f \in [1..VarietySize -> 0..Len(VarietyGenres)] :
        \A i \in 1..(VarietySize - 1) : f[i] <= f[i + 1] }

Labelled(names, f) ==
    [k \in 1..VarietySize |->
        FpListen(JUndef, JNum(NumAdd(T0, k * Hour)), names[k][1], names[k][2],
                 "", "", IF f[k] = 0 THEN "" ELSE VarietyGenres[f[k]])]

CorpusPairs ==
    { [a |-> Labelled(names, f), b |-> Labelled(names, g)] :
        names \in { [k \in 1..VarietySize |-> RepeatedTrack(k)],
                    [k \in 1..VarietySize |-> DistinctTrack(k)] },
        f \in Labellings, g \in Labellings }

CompareVariety ==
    /\ out.fn = "none"
    /\ out' = [fn |-> "calculateVariety",
               r |-> <<calculateVariety(arg.a), calculateVariety(arg.b)>>]
    /\ UNCHANGED <<arg, pvars, dvars, fvars, mvars>>

InitVariety ==
    /\ ParseIdle /\ DbIdle /\ FetchIdle /\ MigrateIdle
    /\ arg \in CorpusPairs
    /\ out = NoOutcome

NextVariety == CompareVariety

SpecVariety == InitVariety /\ [][NextVariety]_vars

GenreSet == {VarietyGenres[i] : i \in 1..Len(VarietyGenres)}

\* the number of listens in the k most frequent genres
TopCount(listens, k) ==
    LET sums == { SumOver(S, [g \in S |-> GenreCount(listens, g)]) :
                    S \in {T \in SUBSET GenreSet : Cardinality(T) = k} }
    IN  CHOOSE x \in sums : \A y \in sums : y <= x

\* b's listens are spread over the genres at least as evenly as a's: every
\* listen of both carries a genre, b has at least as many genres, and the k
\* most frequent genres of b never hold more listens than those of a
AtLeastAsDiverse(b, a) ==
    /\ \A k \in 1..Len(a) : ResolveGenre(a[k]) # "Unknown"
    /\ \A k \in 1..Len(b) : ResolveGenre(b[k]) # "Unknown"
    /\ Cardinality(GenresOf(b)) >= Cardinality(GenresOf(a))
    /\ \A k \in 1..Len(VarietyGenres) : TopCount(b, k) <= TopCount(a, k)

\* C19: of two corpora of the same size that differ in their genre labels
\* only, the one with the more diverse genres never has the lower Variety;
\* in particular a single-genre corpus never scores above the one spread
\* uniformly over 5 genres.
C19_VarietyMonotone ==
    (out.fn = "calculateVariety" /\ AtLeastAsDiverse(arg.b, arg.a)) =>
        out.r[1] <= out.r[2]

\* The particular case: one genre against 5 genres, one listen each
C19_SingleAgainstUniform ==
    (out.fn = "calculateVariety"
        /\ \A k \in 1..Len(arg.a) : ResolveGenre(arg.a[k]) # "Unknown"
        /\ Cardinality(GenresOf(arg.a)) = 1
        /\ \A g \in GenreSet : GenreCount(arg.b, g) = 1) =>
        out.r[1] <= out.r[2]

C19_SingleAgainstUniformWitness ==
    /\ out.fn = "calculateVariety"
    /\ \A k \in 1..Len(arg.a) : ResolveGenre(arg.a[k]) # "Unknown"
    /\ Cardinality(GenresOf(arg.a)) = 1
    /\ \A g \in GenreSet : GenreCount(arg.b, g) = 1
    /\ out.r[1] < out.r[2]

(***************************************************************************)
(* calculateVariety on corpora with one genre or none                       *)
(***************************************************************************)
MaxBlend == 4

\* artist and track of a listen; "" for a missing name
BlendNames ==
    { <<"Ann", "Alpha">>, <<"Ann", "Beta">>, <<"Bob", "Gamma">>, <<"", "Delta">>,
      <<"", "">> }

BlendCorpora ==
    UNION { { [k \in 1..n |->
                 FpListen(JUndef, JNum(T0), names[k][1], names[k][2], "", "",
                          genres[k])] :
              names \in [1..n -> BlendNames], genres \in [1..n -> {"", "rock"}] } :
            n \in 1..MaxBlend }

\* the corpus with every genre field removed
StripGenres(listens) ==
    [k \in 1..Len(listens) |->
        [listens[k] EXCEPT !.genres0 = "", !.normalizedGenre = "", !.genre = ""]]

BlendVariety ==
    /\ out.fn = "none"
    /\ out' = [fn |-> "calculateVariety",
               r |-> <<calculateVariety(arg), calculateVariety(StripGenres(arg))>>]
    /\ UNCHANGED <<arg, pvars, dvars, fvars, mvars>>

InitBlend ==
    /\ ParseIdle /\ DbIdle /\ FetchIdle /\ MigrateIdle
    /\ arg \in BlendCorpora
    /\ out = NoOutcome

NextBlend == BlendVariety

SpecBlend == InitBlend /\ [][NextBlend]_vars

SingleGenre(listens) ==
    /\ \A k \in 1..Len(listens) : ResolveGenre(listens[k]) # "Unknown"
    /\ Cardinality(GenresOf(listens)) = 1

NoGenre(listens) == GenresOf(listens) = {}

\* C27: when every listen resolves to the same single genre, Variety is the
\* unweighted artist/track blend, the value the corpus has with its genre
\* fields removed.
C27_SingleGenreIsBlend ==
    (out.fn = "calculateVariety" /\ SingleGenre(arg)) => out.r[1] = out.r[2]

\* What the code computes for a single genre: the weighted sum with a zero
\* entropy term, round(0.3 min(5a, 100) + 0.3 min(3t, 100)).
C27_SingleGenreWeighted ==
    (out.fn = "calculateVariety" /\ SingleGenre(arg)) =>
        out.r[1] = Round(Min2(150 * UniqueArtists(arg), 30 * Len(arg))
                           + Min2(90 * UniqueTracks(arg), 30 * Len(arg)),
                         Len(arg))

C27_SingleGenreWeightedWitness ==
    /\ out.fn = "calculateVariety" /\ SingleGenre(arg)
    /\ Len(arg) = MaxBlend /\ UniqueArtists(arg) = 2 /\ UniqueTracks(arg) = 3
    /\ out.r[1] = 60 /\ out.r[2] = 100

\* round((min(5a, 100) + min(3t, 100)) / 2), a and t in percent of the listens
StatedBlend(listens) ==
    Round(Min2(500 * UniqueArtists(listens), 100 * Len(listens))
            + Min2(300 * UniqueTracks(listens), 100 * Len(listens)),
          2 * Len(listens))

\* C28: when no listen has a resolvable genre, Variety is the rounded
\* unweighted average of min(uniqueArtistRatio * 5, 100) and
\* min(uniqueTrackRatio * 3, 100).
C28_NoGenreBlend ==
    (out.fn = "calculateVariety" /\ NoGenre(arg)) => out.r[1] = StatedBlend(arg)

\* What the code does guarantee: the stated average when neither term
\* reaches its cap of 100.
C28_BlendBelowCaps ==
    (out.fn = "calculateVariety" /\ NoGenre(arg)
        /\ 5 * UniqueArtists(arg) <= Len(arg) /\ 3 * UniqueTracks(arg) <= Len(arg))
    => out.r[1] = StatedBlend(arg)

C28_BlendBelowCapsWitness ==
    /\ out.fn = "calculateVariety" /\ NoGenre(arg)
    /\ UniqueArtists(arg) = 0 /\ UniqueTracks(arg) = 1 /\ Len(arg) = MaxBlend
    /\ out.r[1] = 38


(***************************************************************************)
(* calculateListeningFingerprint on a corpus and on a permutation of it    *)
(***************************************************************************)
MaxPermute == 3

\* a Spotify listen (millisecond timestamp), two listens in the same second,
\* a listen without genre and a listen that misses every field
PermuteListens ==
    << FpListen(JNum(Times1000(T0)), JNum(T0), "Ann", "Alpha", "rock", "", ""),
       FpListen(JUndef, JNum(NumAdd(T0, 12 * Hour)), "Ann", "Alpha", "", "jazz", ""),
       FpListen(JUndef, JNum(NumAdd(T0, 25 * Hour)), "Bob", "Beta", "", "", ""),
       FpListen(JUndef, JNum(NumAdd(T0, 12 * Hour)), "Cat", "Gamma", "", "", "rock"),
       FpListen(JUndef, JUndef, "", "", "", "", "") >>

\* a corpus, as a choice of listens, with one of its permutations
PermutedPairs ==
    UNION { { [a |-> [k \in 1..n |-> PermuteListens[c[k]]],
               b |-> [k \in 1..n |-> PermuteListens[c[f[k]]]]] :
              c \in { d \in [1..n -> 1..Len(PermuteListens)] :
                        \A i \in 1..(n - 1) : d[i] <= d[i + 1] },
              f \in Permutations(1..n) } :
            n \in 1..MaxPermute }

\* the fingerprint of the corpus
FingerprintCorpus ==
    /\ out.fn = "none"
    /\ \E sorted \in SortedOrders(arg.a) :
          out' = [fn |-> "first",
                  r |-> <<calculateListeningFingerprint(Corpus(arg.a), sorted)>>]
    /\ UNCHANGED <<arg, pvars, dvars, fvars, mvars>>

\* the fingerprint of the permuted corpus
FingerprintPermuted ==
    /\ out.fn = "first"
    /\ \E sorted \in SortedOrders(arg.b) :
          out' = [fn |-> "both",
                  r |-> Append(out.r,
                               calculateListeningFingerprint(Corpus(arg.b), sorted))]
    /\ UNCHANGED <<arg, pvars, dvars, fvars, mvars>>

InitPermute ==
    /\ ParseIdle /\ DbIdle /\ FetchIdle /\ MigrateIdle
    /\ arg \in PermutedPairs
    /\ out = NoOutcome

NextPermute == FingerprintCorpus \/ FingerprintPermuted

SpecPermute == InitPermute /\ [][NextPermute]_vars

\* every listen has a numeric timestamp and no two timestamps are equal
DistinctTimestamps(listens) ==
    /\ \A k \in 1..Len(listens) : TimeOf(listens[k]).t = "num"
    /\ \A i, j \in 1..Len(listens) :
          TimeOf(listens[i]).v = TimeOf(listens[j]).v => i = j

\* C29: consistency, variety and replayRate are the same for a corpus and
\* every permutation of it; discovery and exploration are the same for
\* every permutation of a corpus whose timestamps are pairwise distinct.
C29_OrderIndependent ==
    out.fn = "both" =>
        /\ out.r[1].kind = out.r[2].kind
        /\ out.r[1].consistency = out.r[2].consistency
        /\ out.r[1].variety = out.r[2].variety
        /\ out.r[1].replayRate = out.r[2].replayRate
        /\ DistinctTimestamps(arg.a) =>
              /\ out.r[1].discovery = out.r[2].discovery
              /\ out.r[1].exploration = out.r[2].exploration

\* a corpus with distinct timestamps given in an order other than the
\* chronological one, for which the order of the listens as given would
\* have produced another exploration score
C29_Witness ==
    /\ out.fn = "both"
    /\ DistinctTimestamps(arg.a) /\ Len(arg.a) = MaxPermute
    /\ arg.a # arg.b
    /\ calculateExploration(arg.a) # calculateExploration(arg.b)
    /\ out.r[1].exploration = out.r[2].exploration

\* Discovery is the same for every permutation of every corpus
C29_DiscoveryAnyOrder ==
    out.fn = "both" => out.r[1].discovery = out.r[2].discovery


(***************************************************************************)
(* validateFingerprintData (utils/listeningStats.js)                       *)
(***************************************************************************)
\* Number(x) || 50 for an integer score x
NumberOrFifty(x) == IF x = 0 THEN 50 ELSE x

NullFingerprint ==
    [kind |-> "null", consistency |-> 0, discovery |-> 0, variety |-> 0,
     replayRate |-> 0, exploration |-> 0]

\* the validated object, or NullFingerprint for null.  Every score is an
\* integer here, so hasInvalid (lines 208-215) is never true.
validateFingerprintData(fingerprint) ==
    IF fingerprint.kind # "ok" THEN NullFingerprint
    ELSE [kind |-> "ok",
          consistency |-> NumberOrFifty(fingerprint.consistency),
          discovery   |-> NumberOrFifty(fingerprint.discovery),
          variety     |-> NumberOrFifty(fingerprint.variety),
          replayRate  |-> NumberOrFifty(fingerprint.replayRate),
          exploration |-> NumberOrFifty(fingerprint.exploration)]

\* sample scores: both ends of [0, 100], their neighbours and the neutral 50
ScoreSpread == 1
ScoreSamples == 0..ScoreSpread \cup {50} \cup (100 - ScoreSpread)..100

FingerprintSamples ==
    { NullFingerprint } \cup
    [kind : {"ok"}, consistency : ScoreSamples, discovery : ScoreSamples,
     variety : ScoreSamples, replayRate : ScoreSamples, exploration : ScoreSamples]

ValidateFingerprint ==
    /\ out.fn = "none"
    /\ out' = [fn |-> "validateFingerprintData", r |-> validateFingerprintData(arg)]
    /\ UNCHANGED <<arg, pvars, dvars, fvars, mvars>>

InitValidateFingerprint ==
    /\ ParseIdle /\ DbIdle /\ FetchIdle /\ MigrateIdle
    /\ arg \in FingerprintSamples
    /\ out = NoOutcome

NextValidateFingerprint == ValidateFingerprint

SpecValidateFingerprint ==
    InitValidateFingerprint /\ [][NextValidateFingerprint]_vars

\* C30: a fingerprint whose five fields are integers in [0, 100], 0
\* included, is returned with the same five values.
C30_ScoresUnchanged ==
    (out.fn = "validateFingerprintData" /\ arg.kind = "ok") => out.r = arg

\* What the code does guarantee: a fingerprint without a 0 score is
\* returned unchanged.
C30_NonZeroUnchanged ==
    (out.fn = "validateFingerprintData" /\ arg.kind = "ok"
        /\ 0 \notin {arg.consistency, arg.discovery, arg.variety,
                     arg.replayRate, arg.exploration})
    => out.r = arg

C30_NonZeroUnchangedWitness ==
    /\ out.fn = "validateFingerprintData" /\ arg.kind = "ok"
    /\ arg.consistency = 100 /\ arg.replayRate = 1 /\ arg.exploration = 99
    /\ out.r = arg

\* calculateListeningFingerprint does compute scores of 0
C30_ZeroScoreComputed ==
    /\ out.fn = "calculateListeningFingerprint" /\ out.r.kind = "ok"
    /\ out.r.replayRate = 0 /\ out.r.exploration = 0


(***************************************************************************)
(* migrateOldData (unnamed/part_000: utils/dataMigration.js)               *)
(***************************************************************************)
oldDBNames == <<"MusicGenreEvolutionDB", "MusicGenomeDB", "GenreVisualizerDB">>

possibleListenStores == {"listens", "listening_data", "tracks"}
possibleGenreStores == {"genres", "genreCache", "genre_cache", "artists"}

oldLocalStorageKeys ==
    <<"music-genre-settings", "music-genre-theme", "music-genome-cache",
      "genre-viz-settings", "viz-theme", "listening-data-cache">>

newKeyMap(oldKey) ==
    CASE oldKey = "music-genre-settings" -> "musicquest_settings"
      [] oldKey = "music-genre-theme"    -> "musicquest_theme"
      [] oldKey = "music-genome-cache"   -> "musicquest_cache"
      [] oldKey = "genre-viz-settings"   -> "musicquest_settings"
      [] oldKey = "viz-theme"            -> "musicquest_theme"
      [] oldKey = "listening-data-cache" -> "musicquest_cache"

OldKeys == {oldLocalStorageKeys[k] : k \in 1..Len(oldLocalStorageKeys)}
NewKeys == {newKeyMap(k) : k \in OldKeys}

\* a record of a legacy store: the database it is in and a number
Store(name, data) == [name |-> name, data |-> data]
NoDatabase == [exists |-> FALSE, stores |-> <<>>]
Database(stores) == [exists |-> TRUE, stores |-> stores]

MaxStoreRecords == 2

\* the contents a legacy database may have: listens and genres, listens
\* only, or a store the migration does not know next to an empty genre cache
LegacyContents(d) ==
    { NoDatabase,
      Database(<<Store("listens", {<<d, n>> : n \in 1..MaxStoreRecords}),
                 Store("genres", {<<d, 0>>})>>),
      Database(<<Store("tracks", {<<d, 1>>})>>),
      Database(<<Store("settings", {<<d, 1>>}), Store("genreCache", {})>>) }

\* the values localStorage may hold before the migration: every legacy key
\* unset or set to a value of its own, every new key unset or set
StorageBefore ==
    { [k \in OldKeys \cup NewKeys |->
          IF k \in set THEN (IF k \in OldKeys THEN "legacy value of " \o k
                             ELSE "current value")
          ELSE ""] :
        set \in SUBSET {"music-genre-settings", "genre-viz-settings", "viz-theme",
                        "musicquest_settings", "musicquest_theme"} }

\* getAllFromStore: the request succeeds, the request fails (the promise
\* rejects), or db.transaction raises (the promise resolves with [])
ReadOutcomes == {"ok", "rejects", "throws"}
getAllFromStore(store, outcome) == IF outcome = "ok" THEN store.data ELSE {}

\* saveListeningData(data, false) that succeeded: the records are in the
\* listens store of the new database
saveListeningData(stored, data) == stored \cup data

MigrateFailure(msg) == [success |-> FALSE, migrated |-> FALSE, error |-> msg]

\* lines 22-34
MigrateStart ==
    /\ mpc = "idle"
    /\ \E listed \in BOOLEAN :
          IF listed THEN mpc' = "db" /\ mi' = 1 /\ UNCHANGED mresult
          ELSE /\ mpc' = "done" /\ UNCHANGED mi
               /\ mresult' = MigrateFailure("databases() failed")
    /\ UNCHANGED <<mj, migrationPerformed, legacyDbs, newDb, localStorage>>
    /\ UNCHANGED <<pvars, dvars, fvars, uvars>>

\* lines 36-53: the next name of oldDBNames; a database that is there is
\* opened, and a failure to open it is caught at line 88
DbBegin ==
    /\ mpc = "db" /\ mi <= Len(oldDBNames)
    /\ IF ~legacyDbs[mi].exists THEN mi' = mi + 1 /\ UNCHANGED <<mpc, mj>>
       ELSE \E opened \in BOOLEAN :
              IF opened THEN mpc' = "store" /\ mj' = 1 /\ UNCHANGED mi
              ELSE mi' = mi + 1 /\ UNCHANGED <<mpc, mj>>
    /\ UNCHANGED <<migrationPerformed, legacyDbs, newDb, localStorage, mresult>>
    /\ UNCHANGED <<pvars, dvars, fvars, uvars>>

\* lines 58-80: one store of the open database
StoreStep ==
    /\ mpc = "store" /\ mj <= Len(legacyDbs[mi].stores)
    /\ LET store == legacyDbs[mi].stores[mj]
           known == store.name \in possibleListenStores \cup possibleGenreStores
       IN  IF ~known
           THEN mj' = mj + 1 /\ UNCHANGED <<mpc, mi, migrationPerformed, newDb>>
           ELSE \E read \in ReadOutcomes : \E written \in BOOLEAN :
                  LET data == getAllFromStore(store, read) IN
                  IF read = "rejects" \/ (data # {} /\ ~written)
                  THEN /\ mpc' = "db" /\ mi' = mi + 1
                       /\ UNCHANGED <<mj, migrationPerformed, newDb>>
                  ELSE IF data = {}
                  THEN mj' = mj + 1 /\ UNCHANGED <<mpc, mi, migrationPerformed, newDb>>
                  ELSE /\ newDb' =
                            IF store.name \in possibleListenStores
                            THEN [newDb EXCEPT !.listens = saveListeningData(@, data)]
                            ELSE [newDb EXCEPT !.genres = @ \cup data]
                       /\ migrationPerformed' = TRUE
                       /\ mj' = mj + 1
                       /\ UNCHANGED <<mpc, mi>>
    /\ UNCHANGED <<legacyDbs, localStorage, mresult>>
    /\ UNCHANGED <<pvars, dvars, fvars, uvars>>

\* lines 82-86: the database is closed and deleted
DbDelete ==
    /\ mpc = "store" /\ mj > Len(legacyDbs[mi].stores)
    /\ legacyDbs' = [legacyDbs EXCEPT ![mi] = NoDatabase]
    /\ mpc' = "db" /\ mi' = mi + 1
    /\ UNCHANGED <<mj, migrationPerformed, newDb, localStorage, mresult>>
    /\ UNCHANGED <<pvars, dvars, fvars, uvars>>

\* line 112: the loop over the legacy keys starts
KeysBegin ==
    /\ mpc = "db" /\ mi > Len(oldDBNames)
    /\ mpc' = "keys" /\ mj' = 1
    /\ UNCHANGED <<mi, migrationPerformed, legacyDbs, newDb, localStorage, mresult>>
    /\ UNCHANGED <<pvars, dvars, fvars, uvars>>

\* lines 112-127: one legacy key
KeyStep ==
    /\ mpc = "keys" /\ mj <= Len(oldLocalStorageKeys)
    /\ LET oldKey == oldLocalStorageKeys[mj]
           value == localStorage[oldKey]
           newKey == newKeyMap(oldKey)
           existingValue == localStorage[newKey]
       IN  IF value = "" THEN UNCHANGED <<localStorage, migrationPerformed>>
           ELSE IF existingValue = ""
           THEN /\ localStorage' = [localStorage EXCEPT ![newKey] = value,
                                                        ![oldKey] = ""]
                /\ migrationPerformed' = TRUE
           ELSE /\ localStorage' = [localStorage EXCEPT ![oldKey] = ""]
                /\ UNCHANGED migrationPerformed
    /\ mj' = mj + 1
    /\ UNCHANGED <<mpc, mi, legacyDbs, newDb, mresult>>
    /\ UNCHANGED <<pvars, dvars, fvars, uvars>>

\* lines 129-161
MigrateFinish ==
    /\ mpc = "keys" /\ mj > Len(oldLocalStorageKeys)
    /\ mpc' = "done"
    /\ \E statsRead \in BOOLEAN :
          mresult' = IF migrationPerformed /\ ~statsRead
                     THEN MigrateFailure("could not read the new database")
                     ELSE [success |-> TRUE, migrated |-> migrationPerformed,
                           error |-> ""]
    /\ UNCHANGED <<mi, mj, migrationPerformed, legacyDbs, newDb, localStorage>>
    /\ UNCHANGED <<pvars, dvars, fvars, uvars>>

InitMigrate ==
    /\ ParseIdle /\ DbIdle /\ FetchIdle /\ PureIdle
    /\ mpc = "idle"
    /\ mi = 0
    /\ mj = 0
    /\ migrationPerformed = FALSE
    /\ legacyDbs \in { <<a, b, c>> : a \in LegacyContents(1), b \in LegacyContents(2),
                                     c \in LegacyContents(3) }
    /\ newDb \in { [listens |-> {}, genres |-> {}],
                   [listens |-> {<<0, 1>>}, genres |-> {<<0, 0>>}] }
    /\ localStorage \in StorageBefore
    /\ mresult = [success |-> FALSE, migrated |-> FALSE, error |-> "none"]

NextMigrate ==
    \/ MigrateStart
    \/ DbBegin
    \/ StoreStep
    \/ DbDelete
    \/ KeysBegin
    \/ KeyStep
    \/ MigrateFinish

SpecMigrate == InitMigrate /\ [][NextMigrate]_vars

\* the listen and genre records of a legacy database are in the new one
Migrated(database, target) ==
    \A s \in 1..Len(database.stores) :
        /\ database.stores[s].name \in possibleListenStores =>
               database.stores[s].data \subseteq target.listens
        /\ database.stores[s].name \in possibleGenreStores =>
               database.stores[s].data \subseteq target.genres

\* C17: a legacy database is deleted only after all of its listen and genre
\* records have been read and written to the new database; when reading or
\* writing a store fails, the database is not deleted.
C17_DeletedOnlyWhenMigrated ==
    [][\A d \in 1..Len(oldDBNames) :
          (legacyDbs[d].exists /\ ~legacyDbs'[d].exists) =>
              Migrated(legacyDbs[d], newDb')]_vars

\* The part that holds: a step that leaves the loop over the stores early (a
\* rejected read, a failed write) leaves the legacy database as it was.
C17_RejectedReadKeepsDatabase ==
    [][(mpc = "store" /\ mpc' = "db" /\ mj <= Len(legacyDbs[mi].stores)) =>
          legacyDbs'[mi] = legacyDbs[mi]]_vars

\* C18: every value a legacy key holds is stored under its mapped new key
\* before the legacy key is removed, also when two legacy keys map to one
\* new key or the new key already holds a value.
C18_ValueStoredBeforeRemoval ==
    [][\A k \in OldKeys :
          (localStorage # NoStorage /\ localStorage[k] # "" /\ localStorage'[k] = "") =>
              localStorage'[newKeyMap(k)] = localStorage[k]]_vars

\* The same when the new key holds no value at the time the legacy key is
\* reached
C18_StoredWhenNewKeyFree ==
    [][\A k \in OldKeys :
          (localStorage # NoStorage /\ localStorage[k] # "" /\ localStorage'[k] = ""
              /\ localStorage[newKeyMap(k)] = "") =>
              localStorage'[newKeyMap(k)] = localStorage[k]]_vars

============================================================================
